---------------------------- MODULE Spec2Model ----------------------------
(***************************************************************************)
(* Pairing listener (TempServer, src-tauri/src/temp_server.rs) and the     *)
(* coordinator commands that own it (src-tauri/src/commands.rs).           *)
(*                                                                         *)
(* Text on the wire is a sequence of symbols, one symbol standing for one  *)
(* byte run that the code never looks inside: "NL" is the line feed, "CR"  *)
(* the carriage return, "SP" a blank, the punctuation of JSON and of an    *)
(* HTTP header is one symbol each, and a quoted JSON string, a number, a   *)
(* method, a path or a header name is one symbol.  Every symbol counts as  *)
(* one byte for Content-Length and read_exact.                             *)
(*                                                                         *)
(* Time is counted in milliseconds per wait_for_pairing call.  The only    *)
(* steps that take time are the 100 ms sleep of the accept loop and a      *)
(* blocking read that waits for the client; every other step is taken as   *)
(* instantaneous.                                                          *)
(***************************************************************************)
EXTENDS Integers, Sequences, FiniteSets, TLC

\* ------------------------------------------------------------------ bounds
\* Largest timeout_secs the harness passes to wait_for_pairing.
MaxTimeoutSecs == 1
\* How many stop() calls the harness makes on one instance.
MaxStops == 2
\* TempServer instances that are ever constructed.
MaxInstances == 2
\* Threads that run wait_for_pairing (the harness thread, the spawned tasks).
MaxTasks == 2
\* Coordinator commands that run at the same time.
MaxCallers == 2
\* The timeout_secs of the background task's calls, scaled down: the code
\* passes 180, which is 1800 turns of the accept loop for every call.
BgTimeoutSecs == 0
\* Threads that call one AndroidSocketClient.
MaxThreads == 2
\* Calls (request_token, login) begun on one AndroidSocketClient.
MaxCalls == 2
\* AndroidSocketClient instances.
MaxClients == 2
MaxPeers == 2

\* ------------------------------------------------------- program constants
\* std::thread::sleep(Duration::from_millis(100)) in the accept loop.
SleepMillis == 100
\* find_available_port tries start_port and the 100 ports after it.
ScanSpan == 100
\* u16 holds 0 .. PortModulus - 1.
PortModulus == 65536
\* Duration::from_secs(timeout_secs): seconds to the clock's milliseconds.
MillisPerSec == 1000
\* set_read_timeout(Some(Duration::from_secs(30))) of a SimpleServer handler.
ReadTimeoutMillis == 30000

\* --------------------------------------------------------------- symbols
Whitespace == {"SP", "CR", "NL"}
Urls == {"u1", "u2"}
Tokens == {"t1", "t2"}
\* Quoted JSON strings: the two field names, another key, and the values.
StrLits == {"url", "token", "extra"} \cup Urls \cup Tokens
NumLits == {"7"}

\* str::trim(): leading and trailing whitespace removed.
Trim(s) ==
    LET keep == {i \in 1..Len(s) : s[i] \notin Whitespace}
    IN  IF keep = {} THEN <<>>
        ELSE LET lo == CHOOSE i \in keep : \A j \in keep : i <= j
                 hi == CHOOSE i \in keep : \A j \in keep : j <= i
             IN  SubSeq(s, lo, hi)

\* Whitespace between JSON tokens is skipped by serde_json.
NotWs(x) == x \notin Whitespace
JsonTokens(s) == SelectSeq(s, NotWs)

\* A JSON object of string keys with string or number values.
IsJsonObject(t) ==
    /\ Len(t) >= 2
    /\ t[1] = "{"
    /\ t[Len(t)] = "}"
    /\ LET n == Len(t) - 2
       IN  \/ n = 0
           \/ /\ n % 4 = 3
              /\ \A i \in 1..n :
                    CASE i % 4 = 1 -> t[i + 1] \in StrLits
                      [] i % 4 = 2 -> t[i + 1] = ":"
                      [] i % 4 = 3 -> t[i + 1] \in StrLits \cup NumLits
                      [] OTHER     -> t[i + 1] = ","

\* A JSON array of strings and numbers.
IsJsonArray(t) ==
    /\ Len(t) >= 2
    /\ t[1] = "["
    /\ t[Len(t)] = "]"
    /\ LET n == Len(t) - 2
       IN  \/ n = 0
           \/ /\ n % 2 = 1
              /\ \A i \in 1..n :
                    IF i % 2 = 1 THEN t[i + 1] \in StrLits \cup NumLits
                    ELSE t[i + 1] = ","

\* A JSON scalar on its own.
IsJsonScalar(t) == Len(t) = 1 /\ t[1] \in StrLits \cup NumLits

\* The text is one JSON value and nothing else.
WellFormedJson(s) ==
    LET t == JsonTokens(s)
    IN  IsJsonObject(t) \/ IsJsonArray(t) \/ IsJsonScalar(t)

\* The values an object gives to key k, in order.
ValuesOf(t, k) ==
    LET idx == {i \in 2..(Len(t) - 3) : (i - 1) % 4 = 1 /\ t[i] = k}
    IN  [j \in 1..Cardinality(idx) |->
            LET i == CHOOSE i \in idx :
                        Cardinality({h \in idx : h < i}) = j - 1
            IN  t[i + 2]]

NoData == [ok |-> FALSE, url |-> "", token |-> ""]

ParsePairingData_Swapped(s) ==
    LET t == JsonTokens(s)
    IN  IF IsJsonObject(t) /\ Len(ValuesOf(t, "url")) = 1 /\ Len(ValuesOf(t, "token")) = 1
        THEN [ok |-> TRUE, url |-> ValuesOf(t, "token")[1], token |-> ValuesOf(t, "url")[1]]
        ELSE NoData

ParsePairingData_Defaulting(s) ==
    LET t == JsonTokens(s)
    IN  IF IsJsonObject(t) /\ Len(ValuesOf(t, "url")) = 1 /\ Len(ValuesOf(t, "token")) = 1
        THEN [ok |-> TRUE, url |-> ValuesOf(t, "url")[1], token |-> ValuesOf(t, "token")[1]]
        ELSE [ok |-> TRUE, url |-> "", token |-> ""]

\* serde_json::from_str::<PairingData>: a map with exactly one "url" and one
\* "token", both strings (other keys ignored, a repeated or missing field or
\* a non-string value is an error), or a sequence of exactly two strings.
ParsePairingData(s) ==
    LET t == JsonTokens(s)
    IN  IF IsJsonObject(t)
        THEN LET us == ValuesOf(t, "url")
                 ts == ValuesOf(t, "token")
             IN  IF /\ Len(us) = 1 /\ us[1] \in StrLits
                    /\ Len(ts) = 1 /\ ts[1] \in StrLits
                 THEN [ok |-> TRUE, url |-> us[1], token |-> ts[1]]
                 ELSE NoData
        ELSE IF IsJsonArray(t) /\ Len(t) = 5
                /\ t[2] \in StrLits /\ t[4] \in StrLits
        THEN [ok |-> TRUE, url |-> t[2], token |-> t[4]]
        ELSE NoData

\* The first fault the derived Deserialize of PairingData finds in an object:
\* keys are taken in order, a field seen twice is an error before its value
\* is looked at, a value of a field that is not a string is an error, and a
\* field never seen is an error at the closing brace.
ObjectFault(t) ==
    LET keys == {i \in 2..(Len(t) - 3) : (i - 1) % 4 = 1 /\ t[i] \in {"url", "token"}}
        dup(i) == \E h \in keys : h < i /\ t[h] = t[i]
        bad == {i \in keys : dup(i) \/ t[i + 2] \notin StrLits}
    IN  IF bad # {}
        THEN LET i == CHOOSE i \in bad : \A h \in bad : i <= h
             IN  IF dup(i) THEN <<"duplicate field", t[i]>>
                 ELSE <<"invalid type: integer", t[i + 2], "expected a string">>
        ELSE IF Len(ValuesOf(t, "url")) = 0 THEN <<"missing field", "url">>
        ELSE <<"missing field", "token">>

\* The same for a sequence: two strings are wanted, in order.
ArrayFault(t) ==
    LET n == (Len(t) - 1) \div 2
    IN  IF n >= 1 /\ t[2] \notin StrLits
        THEN <<"invalid type: integer", t[2], "expected a string">>
        ELSE IF n >= 2 /\ t[4] \notin StrLits
        THEN <<"invalid type: integer", t[4], "expected a string">>
        ELSE IF n < 2
        THEN <<"invalid length", "expected struct PairingData with 2 elements">>
        ELSE <<"trailing characters">>

\* Display of the serde_json::Error of a text that ParsePairingData refuses:
\* what was found wrong, quoting at most a field name or the one value of the
\* wrong type, and the position. A text that is not JSON gets one of the
\* parser's fixed syntax messages.
SerdeMessage(s) ==
    LET t == JsonTokens(s)
    IN  (CASE IsJsonObject(t) -> ObjectFault(t)
           [] IsJsonArray(t)  -> ArrayFault(t)
           [] IsJsonScalar(t) ->
                IF t[1] \in StrLits
                THEN <<"invalid type: string", t[1], "expected struct PairingData">>
                ELSE <<"invalid type: integer", t[1], "expected struct PairingData">>
           [] OTHER -> <<"syntax error">>)
        \o <<"at line", "column">>

\* format!("Failed to parse pairing data: {}", e) for the trimmed line.
ParseErrorText(line) ==
    <<"Failed to parse pairing data", ":", "SP">> \o SerdeMessage(line)

\* The payload a pairing client writes: {"url":"<u>","token":"<t>"}.
PairingJson(u, t) == <<"{", "url", ":", u, ",", "token", ":", t, "}">>

\* ------------------------------------------------------- client scripts
CRLF == <<"CR", "NL">>
RequestLine(method, path) == <<method, "SP", path, "SP", "HTTP/1.1">> \o CRLF
Header(name, value) == <<name, ":", "SP">> \o value \o CRLF
HostHeader == Header("Host", <<"127.0.0.1", ":", "10057">>)
TypeHeader == Header("Content-Type", <<"application/json">>)

ValidForms == {"plain", "reordered", "extra"}
MalformedForms == {"empty", "truncated", "nocolon", "unbalanced", "postline"}
ShapeForms == {"notoken", "numtoken", "dupurl", "array", "scalar"}

\* The payload text of a script: what the client puts on the line or in the body.
BodyOf(sc) ==
    CASE sc.form = "plain"      -> PairingJson(sc.u, sc.t)
      [] sc.form = "reordered"  -> <<"{", "token", ":", sc.t, ",", "url", ":", sc.u, "}">>
      [] sc.form = "extra"      -> <<"{", "url", ":", sc.u, ",", "SP", "extra", ":", "7",
                                      ",", "token", ":", sc.t, "SP", "}">>
      [] sc.form = "empty"      -> <<>>
      [] sc.form = "truncated"  -> <<"{", "url", ":", sc.u, ",", "token", ":", sc.t>>
      [] sc.form = "nocolon"    -> <<"{", "url", sc.u, ",", "token", sc.t, "}">>
      [] sc.form = "unbalanced" -> <<"}", "url", ":", sc.u, "{">>
      [] sc.form = "postline"   -> <<"POST", "SP", "/pair", "SP", sc.u>>
      [] sc.form = "notoken"    -> <<"{", "url", ":", sc.u, "}">>
      [] sc.form = "numtoken"   -> <<"{", "url", ":", sc.u, ",", "token", ":", "7", "}">>
      [] sc.form = "dupurl"     -> <<"{", "url", ":", sc.u, ",", "url", ":", sc.u,
                                      ",", "token", ":", sc.t, "}">>
      [] sc.form = "array"      -> <<"[", sc.u, ",", sc.t, "]">>
      [] OTHER                  -> <<sc.u>>

\* The Content-Length header a script sends.
LengthHeader(sc) ==
    LET n == Len(BodyOf(sc))
    IN  CASE sc.len = "exact" -> Header("Content-Length", <<ToString(n)>>)
          [] sc.len = "lower" -> Header("content-length", <<ToString(n)>>)
          [] sc.len = "zero"  -> Header("Content-Length", <<"0">>)
          [] sc.len = "lowzero" -> Header("content-length", <<"0">>)
          [] sc.len = "short" -> Header("Content-Length", <<ToString(n - 1)>>)
          [] sc.len = "long"  -> Header("Content-Length", <<ToString(n + 1)>>)
          [] sc.len = "junk"  -> Header("Content-Length", <<"application/json">>)
          [] OTHER            -> <<>>

\* Everything the client writes on the connection, in order.
StreamOf(sc) ==
    IF sc.tr = "raw"
    THEN BodyOf(sc) \o (IF sc.len = "nonl" THEN <<>> ELSE <<"NL">>)
    ELSE RequestLine(sc.method, sc.path) \o HostHeader \o TypeHeader
            \o LengthHeader(sc) \o CRLF \o BodyOf(sc)

\* How many symbols the client writes in its first piece.
CutOf(sc) ==
    CASE sc.cut = "midline" -> Len(BodyOf(sc))
      [] sc.cut = "reqline" -> Len(RequestLine(sc.method, sc.path))
      [] sc.cut = "headers" -> Len(StreamOf(sc)) - Len(BodyOf(sc))
      [] sc.cut = "midbody" -> Len(StreamOf(sc)) - 1
      [] OTHER              -> Len(StreamOf(sc))

Script(tr, form, u, t, len, cut, method, path) ==
    [tr |-> tr, form |-> form, u |-> u, t |-> t, len |-> len, cut |-> cut,
     method |-> method, path |-> path]

RawScripts ==
    {Script("raw", "plain", u, t, "nl", "whole", "", "") : u \in Urls, t \in Tokens}
    \cup {Script("raw", f, "u1", "t1", "nl", "whole", "", "") :
            f \in (ValidForms \cup MalformedForms \cup ShapeForms) \ {"plain"}}
    \cup {Script("raw", "plain", "u1", "t1", "nonl", "whole", "", ""),
          Script("raw", "plain", "u1", "t1", "nl", "midline", "", "")}

HttpScripts ==
    {Script("http", "plain", u, t, "exact", "whole", "POST", "/pair") :
        u \in Urls, t \in Tokens}
    \cup {Script("http", f, "u1", "t1", "exact", "whole", "POST", "/pair") :
            f \in (ValidForms \cup MalformedForms \cup ShapeForms) \ {"plain"}}
    \cup {Script("http", "plain", "u1", "t1", l, "whole", "POST", "/pair") :
            l \in {"lower", "none", "zero", "lowzero", "short", "long", "junk"}}
    \cup {Script("http", "plain", "u1", "t1", "exact", c, "POST", "/pair") :
            c \in {"reqline", "headers", "midbody"}}
    \cup {Script("http", "plain", "u1", "t1", "exact", "whole", m, p) :
            m \in {"POST", "GET"}, p \in {"/", "http://h/pair"}}

Scripts == RawScripts \cup HttpScripts
NoScript == Script("raw", "empty", "u1", "t1", "nl", "whole", "", "")

\* ------------------------------------------------ server side of the text
\* first_line.starts_with("POST /pair") || first_line.starts_with("POST /")
PairPaths == {"/pair"}
SlashPaths == {"/pair", "/"}
StartsWithPost(line, paths) ==
    /\ Len(line) >= 3
    /\ line[1] = "POST"
    /\ line[2] = "SP"
    /\ line[3] \in paths
IsHttpPost(line) == StartsWithPost(line, PairPaths) \/ StartsWithPost(line, SlashPaths)

\* str::to_lowercase() on a header name.
Lower(sym) == IF sym = "Content-Length" THEN "content-length" ELSE sym

\* line.split(':').nth(1): the symbols between the first and the second colon.
SecondField(line) ==
    LET colons == {i \in 1..Len(line) : line[i] = ":"}
        c1 == CHOOSE i \in colons : \A j \in colons : i <= j
        rest == {i \in colons : i > c1}
        c2 == IF rest = {} THEN Len(line) + 1
              ELSE CHOOSE i \in rest : \A j \in rest : i <= j
    IN  SubSeq(line, c1 + 1, c2 - 1)

\* len_str.trim().parse::<usize>().unwrap_or(0)
Decimals == 0..40
ParseUsizeOrZero(field) ==
    LET t == Trim(field)
    IN  IF Len(t) = 1 /\ \E n \in Decimals : ToString(n) = t[1]
        THEN CHOOSE n \in Decimals : ToString(n) = t[1]
        ELSE 0

\* One pass of the header loop over a non-empty line: the new content_length.
ContentLengthAfter(line, cur) ==
    IF Len(line) >= 2 /\ Lower(line[1]) = "content-length" /\ line[2] = ":"
    THEN ParseUsizeOrZero(SecondField(line))
    ELSE cur

\* serde_json::json!({"success": true, "message": "Pairing successful"}) as
\* text: serde_json's map is ordered by key.
SuccessBody == <<"{", "message", ":", "Pairing successful", ",", "success", ":", "true", "}">>
RawSuccess == [kind |-> "line", clen |-> 0, body |-> SuccessBody \o <<"NL">>]
Http200 == [kind |-> "200", clen |-> Len(SuccessBody), body |-> SuccessBody]
Http400 == [kind |-> "400", clen |-> 0, body |-> <<>>]

\* Results of wait_for_pairing: Ok(PairingData) or Err(message).
Ok(d) == [ok |-> TRUE, url |-> d.url, token |-> d.token, err |-> ""]
Err(m) == [ok |-> FALSE, url |-> "", token |-> "", err |-> m]
NoResult == Err("none")

\* Duration::from_secs(timeout_secs)
TimeoutMillis_FromMillis(secs) == secs
TimeoutMillis(secs) == secs * MillisPerSec
\* start.elapsed() > timeout
TimedOut(elapsed, timeout) == elapsed > timeout
\* !*self.running.lock()
Stopped_Never(s) == FALSE
Stopped(s) == ~s.running

\* ------------------------------------------------------------------ state
VARIABLES
    srv,    \* the TempServer instances: listener, port, running, waiting_for_pairing
    task,   \* the threads that run wait_for_pairing, each with its position
    conn,   \* the client connection: what the client sends and what it got back
    slot,   \* AppState.temp_server: the instance the coordinator holds, 0 for None
    rw,     \* the RwLock around AppState.temp_server
    cmd,    \* the coordinator commands in progress
    bg,     \* the background listener tasks spawned by start_temp_server
    hist,   \* how the previous wait_for_pairing call of the harness thread failed
    cl,     \* the AndroidSocketClient instances, each with its connection to a device
    th,     \* the threads that call request_token and login, or run a link command
    reg,    \* AppState.clients: connection_id -> the instance held (0 for none),
            \* with the inserts made under that id and the removes that found
            \* an entry (0), in their order
    lk,     \* the RwLock around AppState.clients: the thread that holds it for
            \* writing, 0 for none
    net,    \* the local ports other sockets hold, and the caller of
            \* check_port_available or find_available_port
    ss      \* the SimpleServer: its running flag, its listener thread, and
            \* the clients that connect to it with their handler threads

listenerVars == <<srv, task, conn>>
cmdVars == <<slot, rw, cmd, bg>>
notLink == <<srv, task, conn, slot, rw, cmd, bg, hist, net, ss>>
regVars == <<reg, lk>>
notNet == <<srv, task, conn, slot, rw, cmd, bg, hist, cl, th, reg, lk, ss>>
notSimple == <<srv, task, conn, slot, rw, cmd, bg, hist, cl, th, reg, lk, net>>
otherVars == <<hist, cl, th, reg, lk, net, ss>>
vars == <<srv, task, conn, slot, rw, cmd, bg, hist, cl, th, reg, lk, net, ss>>

Instances == 1..MaxInstances
Tasks == 1..MaxTasks
Callers == 1..MaxCallers
TimeoutSecs == 0..MaxTimeoutSecs
Ports == {10035, 10057}

NoServer == [alive |-> FALSE, listener |-> FALSE, port |-> 0, running |-> FALSE,
             waiting |-> FALSE, stops |-> 0]
\* TempServer::new(port) on success.
NewServer(port) == [alive |-> TRUE, listener |-> TRUE, port |-> port, running |-> TRUE,
                    waiting |-> FALSE, stops |-> 0]

IdleTask == [pc |-> "idle", inst |-> 0, secs |-> 0, timeout |-> 0, elapsed |-> 0, rd |-> 0,
             clen |-> 0, res |-> NoResult, got |-> FALSE, stopAt |-> -1,
             late |-> FALSE]

NoConn == [st |-> "none", inst |-> 0, task |-> 0, script |-> NoScript, sent |-> 0,
           closed |-> FALSE, fault |-> "none", out |-> <<>>]

InCall(k) == task[k].pc \notin {"idle", "returned"}
\* The positions of the accept loop.
LoopPcs == {"top", "accept", "sleep"}

\* -------------------------------------------------- TempServer operations
\* TempServer::stop: *self.running.lock() = false
StopServer_Toggle(s) == [s EXCEPT !.running = ~@]
StopServer_Closing(s) == [s EXCEPT !.running = FALSE, !.listener = FALSE]
StopServer(s) == [s EXCEPT !.running = FALSE]

\* SimpleServer: a port and a running flag; stop() clears the flag.
SimpleServers == [port : Ports, running : BOOLEAN]
SimpleStop(s) == [s EXCEPT !.running = FALSE]

\* ------------------------------------------------------ the SimpleServer
Peers == 1..MaxPeers
\* What a client of the SimpleServer does: it sends the pairing line, a line
\* that does not parse, or nothing at all.
PeerScripts == {"valid", "malformed", "silent"}
\* A client: none (not connected), pending (in the backlog), yielded (taken by
\* accept, in the hands of the listener thread), handling (its handler thread
\* runs), answered (the success line was written), failed (the handler
\* returned an error), dropped (its stream was dropped unhandled).
NoPeer == [st |-> "none", script |-> "silent", sent |-> FALSE]
\* SimpleServer::new(port): running = false; no listener thread yet. loop is
\* the position of the listener thread, cur the client its accept yielded (0
\* for none) with how the accept ended, stopped whether stop() was called
\* since the thread began, late the time the thread has spent since that
\* stop(), gap the time it has spent since it last called accept.
NoSimple == [running |-> FALSE, bound |-> FALSE, loop |-> "none", cur |-> 0,
             how |-> "none", stopped |-> FALSE, late |-> 0, gap |-> 0,
             peer |-> [j \in Peers |-> NoPeer]]

\* SimpleServer::start: bind, set_nonblocking, running = true, the listener
\* thread is spawned with the listener. The bind fails while a listener
\* thread of an earlier start still has the port.
SimpleStart ==
    /\ ~ss.bound
    /\ ss.loop \in {"none", "done"}
    /\ ss' = [ss EXCEPT !.running = TRUE, !.bound = TRUE, !.loop = "accept",
                        !.cur = 0, !.how = "none", !.stopped = FALSE,
                        !.late = 0, !.gap = 0]
    /\ UNCHANGED notSimple

\* SimpleServer::stop, called while the flag is set.
SimpleStopCall ==
    /\ ss.running
    /\ ss' = [SimpleStop(ss) EXCEPT !.stopped = TRUE]
    /\ UNCHANGED notSimple

\* listener.incoming() gives the next item: accept() on the non-blocking
\* listener takes a connection of the backlog, or ends with WouldBlock, or
\* with another error.
SimpleAccept ==
    /\ ss.loop = "accept"
    /\ \/ \E j \in Peers :
            /\ ss.peer[j].st = "pending"
            /\ ss' = [ss EXCEPT !.loop = "check", !.cur = j, !.how = "stream",
                                !.gap = 0, !.peer[j].st = "yielded"]
       \/ /\ \A j \in Peers : ss.peer[j].st # "pending"
          /\ ss' = [ss EXCEPT !.loop = "check", !.cur = 0, !.how = "would_block",
                              !.gap = 0]
       \/ ss' = [ss EXCEPT !.loop = "check", !.cur = 0, !.how = "error", !.gap = 0]
    /\ UNCHANGED notSimple

\* The listener thread ends: the closure's listener is dropped, and with it
\* the connections of the backlog; a stream in its hands is dropped too.
LoopEnds(s) ==
    [s EXCEPT !.loop = "done", !.bound = FALSE, !.cur = 0, !.how = "none",
              !.peer = [j \in Peers |->
                    IF s.peer[j].st \in {"pending", "yielded"}
                    THEN [s.peer[j] EXCEPT !.st = "dropped"]
                    ELSE s.peer[j]]]

\* The listener thread that handles the connection itself: it reads the
\* client's line, or waits out the read timeout.
SimpleCheck_Inline ==
    /\ ss.loop = "check"
    /\ ss' = IF ~ss.running THEN LoopEnds(ss)
             ELSE IF ss.how = "stream"
             THEN IF ss.peer[ss.cur].sent
                  THEN [ss EXCEPT !.loop = "accept", !.cur = 0, !.how = "none",
                                  !.peer[ss.cur].st =
                                      IF ss.peer[ss.cur].script = "valid"
                                      THEN "answered" ELSE "failed"]
                  ELSE [ss EXCEPT !.loop = "accept", !.cur = 0, !.how = "none",
                                  !.gap = @ + ReadTimeoutMillis,
                                  !.late = IF ss.stopped THEN @ + ReadTimeoutMillis
                                           ELSE @,
                                  !.peer[ss.cur].st = "failed"]
             ELSE IF ss.how = "would_block"
             THEN [ss EXCEPT !.loop = "sleep"]
             ELSE [ss EXCEPT !.loop = "accept", !.how = "none"]
    /\ UNCHANGED notSimple

\* The body of the for loop: break when running is false; a stream is given
\* to a thread of its own; WouldBlock goes to the sleep; another error is
\* logged and the loop goes on.
SimpleCheck ==
    /\ ss.loop = "check"
    /\ ss' = IF ~ss.running THEN LoopEnds(ss)
             ELSE IF ss.how = "stream"
             THEN [ss EXCEPT !.loop = "accept", !.cur = 0, !.how = "none",
                             !.peer[ss.cur].st = "handling"]
             ELSE IF ss.how = "would_block"
             THEN [ss EXCEPT !.loop = "sleep"]
             ELSE [ss EXCEPT !.loop = "accept", !.how = "none"]
    /\ UNCHANGED notSimple

\* thread::sleep(Duration::from_millis(100)); continue
SimpleSleep ==
    /\ ss.loop = "sleep"
    /\ ss' = [ss EXCEPT !.loop = "accept", !.how = "none",
                        !.gap = @ + SleepMillis,
                        !.late = IF ss.stopped THEN @ + SleepMillis ELSE @]
    /\ UNCHANGED notSimple

\* handle_client on its own thread: read_line gives the client's line, or
\* fails after the read timeout when none has come; the line is parsed and
\* the success line is written, or the error is returned.
SimpleHandle(j) ==
    /\ ss.peer[j].st = "handling"
    /\ ss' = [ss EXCEPT !.peer[j].st =
                  IF ss.peer[j].sent /\ ss.peer[j].script = "valid"
                  THEN "answered" ELSE "failed"]
    /\ UNCHANGED notSimple

\* A client connects while the port is bound.
PeerConnect(j, script) ==
    /\ ss.bound
    /\ ss.peer[j].st = "none"
    /\ ss' = [ss EXCEPT !.peer[j] = [st |-> "pending", script |-> script,
                                     sent |-> FALSE]]
    /\ UNCHANGED notSimple

\* A client that has a line to send writes it.
PeerSend(j) ==
    /\ ss.peer[j].st \in {"pending", "yielded", "handling"}
    /\ ss.peer[j].script # "silent"
    /\ ~ss.peer[j].sent
    /\ ss' = [ss EXCEPT !.peer[j].sent = TRUE]
    /\ UNCHANGED notSimple

WaitBegin_Rearm(k, i, secs) ==
    /\ task[k].pc \in {"idle", "returned"}
    /\ srv[i].alive
    /\ srv' = [srv EXCEPT ![i].waiting = TRUE, ![i].running = TRUE]
    /\ task' = [task EXCEPT ![k] =
            [pc |-> "top", inst |-> i, secs |-> secs, timeout |-> secs * MillisPerSec,
             elapsed |-> 0, rd |-> 0, clen |-> 0, res |-> Err("none"), got |-> FALSE,
             stopAt |-> -1, late |-> srv[i].stops > 0]]

\* wait_for_pairing up to the loop: waiting_for_pairing = true, the listener
\* taken from the Option, the clock started.
WaitBegin(k, i, secs) ==
    /\ ~InCall(k)
    /\ srv[i].alive
    /\ srv' = [srv EXCEPT ![i].waiting = TRUE]
    /\ task' = [task EXCEPT ![k] =
            [IdleTask EXCEPT
                !.pc = IF srv[i].listener THEN "top" ELSE "returned",
                !.res = IF srv[i].listener THEN NoResult
                        ELSE Err("Server not initialized"),
                !.inst = i,
                !.secs = secs,
                !.timeout = TimeoutMillis(secs),
                !.late = srv[i].stops > 0]]

LoopTop_TimeoutStops(k) ==
    LET t == task[k]
        i == t.inst
    IN  /\ t.pc = "top"
        /\ IF TimedOut(t.elapsed, t.timeout)
           THEN /\ srv' = [srv EXCEPT ![i].waiting = FALSE, ![i].running = FALSE]
                /\ task' = [task EXCEPT ![k].pc = "returned",
                                        ![k].res = Err("Timeout waiting for pairing")]
           ELSE IF Stopped(srv[i])
           THEN /\ srv' = [srv EXCEPT ![i].waiting = FALSE]
                /\ task' = [task EXCEPT ![k].pc = "returned",
                                        ![k].res = Err("Server stopped")]
           ELSE /\ task' = [task EXCEPT ![k].pc = "accept"]
                /\ UNCHANGED srv
        /\ UNCHANGED conn

\* The head of the loop: the timeout check, then the running check.
LoopTop(k) ==
    LET t == task[k]
        i == t.inst
    IN  /\ t.pc = "top"
        /\ IF TimedOut(t.elapsed, t.timeout)
           THEN /\ srv' = [srv EXCEPT ![i].waiting = FALSE]
                /\ task' = [task EXCEPT ![k].pc = "returned",
                                        ![k].res = Err("Timeout waiting for pairing")]
           ELSE IF Stopped(srv[i])
           THEN /\ srv' = [srv EXCEPT ![i].waiting = FALSE]
                /\ task' = [task EXCEPT ![k].pc = "returned",
                                        ![k].res = Err("Server stopped")]
           ELSE /\ task' = [task EXCEPT ![k].pc = "accept"]
                /\ UNCHANGED srv
        /\ UNCHANGED conn

\* listener.accept() on the non-blocking listener.
Accept(k) ==
    LET t == task[k]
        i == t.inst
    IN  /\ t.pc = "accept"
        /\ IF conn.st = "pending" /\ conn.inst = i
           THEN \/ /\ conn' = [conn EXCEPT !.st = "accepted", !.task = k]
                   /\ task' = [task EXCEPT ![k].pc = "prepare", ![k].got = TRUE]
                   /\ UNCHANGED srv
                \/ /\ conn' = [conn EXCEPT !.st = "closed", !.task = k,
                                           !.fault = "accept"]
                   /\ srv' = [srv EXCEPT ![i].waiting = FALSE]
                   /\ task' = [task EXCEPT ![k].pc = "returned", ![k].got = TRUE,
                                           ![k].res = Err("Accept error")]
           ELSE /\ task' = [task EXCEPT ![k].pc = "sleep"]
                /\ UNCHANGED <<srv, conn>>

\* WouldBlock: std::thread::sleep(100 ms); continue
Sleep(k) ==
    /\ task[k].pc = "sleep"
    /\ task' = [task EXCEPT ![k].pc = "top", ![k].elapsed = @ + SleepMillis]
    /\ UNCHANGED <<srv, conn>>

\* stream.set_nonblocking(false)?, then handle_pairing_client's try_clone.
Prepare(k) ==
    /\ task[k].pc = "prepare"
    /\ \/ /\ task' = [task EXCEPT ![k].pc = "read_first"]
          /\ UNCHANGED conn
       \/ /\ task' = [task EXCEPT ![k].pc = "returned",
                                  ![k].res = Err("Failed to set stream blocking")]
          /\ conn' = [conn EXCEPT !.st = "closed", !.fault = "set_blocking"]
       \/ /\ task' = [task EXCEPT ![k].pc = "finish",
                                  ![k].res = Err("Failed to clone stream")]
          /\ conn' = [conn EXCEPT !.fault = "clone"]
    /\ UNCHANGED srv

\* What the reader can deliver now.
Avail(k) == SubSeq(StreamOf(conn.script), task[k].rd + 1, conn.sent)
HasLine(k) == \E j \in 1..Len(Avail(k)) : Avail(k)[j] = "NL"
\* BufRead::read_line: up to and with the first line feed, or to end of stream.
NextLine(k) ==
    LET a == Avail(k)
    IN  IF HasLine(k)
        THEN SubSeq(a, 1, CHOOSE j \in 1..Len(a) :
                            a[j] = "NL" /\ \A h \in 1..(j - 1) : a[h] # "NL")
        ELSE a
LineReady(k) == HasLine(k) \/ conn.closed

AfterFirstLine_AlwaysAnswers(t, line) ==
    LET d == ParsePairingData(Trim(line))
    IN  [t EXCEPT
            !.rd = @ + Len(line),
            !.pc = IF IsHttpPost(line) THEN "http_hdr" ELSE "raw_write",
            !.res = IF IsHttpPost(line) THEN NoResult
                    ELSE IF d.ok THEN Ok(d)
                    ELSE Err("Failed to parse pairing data")]

\* The first line as handle_pairing_client takes it: the HTTP sniff, and in
\* raw-line mode the parse of the trimmed line.
AfterFirstLine(t, line) ==
    LET d == ParsePairingData(Trim(line))
    IN  [t EXCEPT
            !.rd = @ + Len(line),
            !.pc = IF IsHttpPost(line) THEN "http_hdr"
                   ELSE IF d.ok THEN "raw_write" ELSE "finish",
            !.res = IF IsHttpPost(line) THEN NoResult
                    ELSE IF d.ok THEN Ok(d)
                    ELSE Err("Failed to parse pairing data")]

\* The first line is read and sniffed; in raw-line mode it is parsed.
ReadFirst(k) ==
    /\ task[k].pc = "read_first"
    /\ \/ /\ LineReady(k)
          /\ task' = [task EXCEPT ![k] = AfterFirstLine(@, NextLine(k))]
          /\ UNCHANGED conn
       \/ /\ task' = [task EXCEPT ![k].pc = "finish",
                                  ![k].res = Err("Failed to read from client")]
          /\ conn' = [conn EXCEPT !.fault = "read_first"]
    /\ UNCHANGED srv

\* Raw-line mode: the success line is written and flushed.
RawWrite(k) ==
    /\ task[k].pc = "raw_write"
    /\ \/ /\ task' = [task EXCEPT ![k].pc = "finish"]
          /\ conn' = [conn EXCEPT !.out = Append(@, RawSuccess)]
       \/ /\ task' = [task EXCEPT ![k].pc = "finish",
                                  ![k].res = Err("Failed to send response")]
          /\ conn' = [conn EXCEPT !.fault = "write"]
    /\ UNCHANGED srv

\* HTTP mode without the check of content_length after the empty line.
HttpHeader_NoLengthCheck(k) ==
    /\ task[k].pc = "http_hdr"
    /\ \/ /\ LineReady(k)
          /\ LET line == NextLine(k)
             IN  task' = [task EXCEPT
                     ![k].rd = @ + Len(line),
                     ![k].clen = IF Trim(line) # <<>>
                                 THEN ContentLengthAfter(line, @) ELSE @,
                     ![k].pc = IF Trim(line) # <<>> THEN @ ELSE "http_body"]
          /\ UNCHANGED conn
       \/ /\ task' = [task EXCEPT ![k].pc = "finish",
                                  ![k].res = Err("Failed to read header")]
          /\ conn' = [conn EXCEPT !.fault = "read_hdr"]
    /\ UNCHANGED srv

\* HTTP mode: one pass of the header loop; after the empty line, the check of
\* content_length with its 400 response.
HttpHeader(k) ==
    /\ task[k].pc = "http_hdr"
    /\ \/ /\ LineReady(k)
          /\ LET line == NextLine(k)
             IN  IF Trim(line) # <<>>
                 THEN /\ task' = [task EXCEPT
                              ![k].rd = @ + Len(line),
                              ![k].clen = ContentLengthAfter(line, @)]
                      /\ UNCHANGED conn
                 ELSE IF task[k].clen # 0
                 THEN /\ task' = [task EXCEPT ![k].rd = @ + Len(line),
                                              ![k].pc = "http_body"]
                      /\ UNCHANGED conn
                 ELSE \/ /\ task' = [task EXCEPT
                                 ![k].rd = @ + Len(line),
                                 ![k].pc = "finish",
                                 ![k].res = Err("No content in POST request")]
                         /\ conn' = [conn EXCEPT !.out = Append(@, Http400)]
                      \/ /\ task' = [task EXCEPT
                                 ![k].rd = @ + Len(line),
                                 ![k].pc = "finish",
                                 ![k].res = Err("Failed to write error")]
                         /\ conn' = [conn EXCEPT !.fault = "write"]
       \/ /\ task' = [task EXCEPT ![k].pc = "finish",
                                  ![k].res = Err("Failed to read header")]
          /\ conn' = [conn EXCEPT !.fault = "read_hdr"]
    /\ UNCHANGED srv

\* The body as handle_http_post takes it: the parse of the bytes read.
AfterBody(t, body) ==
    LET d == ParsePairingData(body)
    IN  [t EXCEPT
            !.rd = @ + Len(body),
            !.pc = IF d.ok THEN "http_write" ELSE "finish",
            !.res = IF d.ok THEN Ok(d) ELSE Err("Invalid JSON")]

\* HTTP mode: read_exact of content_length bytes, then the parse; a body that
\* does not parse is answered 400 (a failed write of that answer is ignored).
HttpBody(k) ==
    /\ task[k].pc = "http_body"
    /\ \/ /\ Len(Avail(k)) >= task[k].clen
          /\ LET body == SubSeq(Avail(k), 1, task[k].clen)
             IN  /\ task' = [task EXCEPT ![k] = AfterBody(@, body)]
                 /\ IF ParsePairingData(body).ok
                    THEN UNCHANGED conn
                    ELSE \/ conn' = [conn EXCEPT !.out = Append(@, Http400)]
                         \/ conn' = [conn EXCEPT !.fault = "write"]
       \/ /\ Len(Avail(k)) < task[k].clen
          /\ conn.closed
          /\ task' = [task EXCEPT ![k].pc = "finish",
                                  ![k].res = Err("Failed to read body")]
          /\ UNCHANGED conn
       \/ /\ task' = [task EXCEPT ![k].pc = "finish",
                                  ![k].res = Err("Failed to read body")]
          /\ conn' = [conn EXCEPT !.fault = "read_body"]
    /\ UNCHANGED srv

HttpWrite_ThenFail(k) ==
    /\ task[k].pc = "http_write"
    /\ task' = [task EXCEPT ![k].pc = "finish",
                            ![k].res = Err("Failed to flush")]
    /\ conn' = [conn EXCEPT !.out = Append(@, Http200)]
    /\ UNCHANGED srv

\* HTTP mode: the 200 response is written and flushed.
HttpWrite(k) ==
    /\ task[k].pc = "http_write"
    /\ \/ /\ task' = [task EXCEPT ![k].pc = "finish"]
          /\ conn' = [conn EXCEPT !.out = Append(@, Http200)]
       \/ /\ task' = [task EXCEPT ![k].pc = "finish",
                                  ![k].res = Err("Failed to write response")]
          /\ conn' = [conn EXCEPT !.fault = "write"]
    /\ UNCHANGED srv

Finish_Continue(k) ==
    /\ task[k].pc = "finish"
    /\ srv' = [srv EXCEPT ![task[k].inst].waiting = FALSE]
    /\ task' = [task EXCEPT ![k].pc = IF task[k].res.ok THEN "returned" ELSE "top"]
    /\ conn' = [conn EXCEPT !.st = "closed"]

\* Back in wait_for_pairing: waiting_for_pairing = false; return result.  The
\* stream and the reader go out of scope: the connection is closed.
Finish(k) ==
    /\ task[k].pc = "finish"
    /\ srv' = [srv EXCEPT ![task[k].inst].waiting = FALSE]
    /\ task' = [task EXCEPT ![k].pc = "returned"]
    /\ conn' = [conn EXCEPT !.st = "closed"]

\* A blocking read with nothing to deliver: the thread waits, time passes.
ReadBlocked(k) ==
    \/ task[k].pc \in {"read_first", "http_hdr"} /\ ~LineReady(k)
    \/ task[k].pc = "http_body" /\ Len(Avail(k)) < task[k].clen /\ ~conn.closed
ReadStall(k) ==
    /\ ReadBlocked(k)
    /\ task[k].elapsed <= task[k].timeout + SleepMillis
    /\ task' = [task EXCEPT ![k].elapsed = task[k].timeout + 2 * SleepMillis]
    /\ UNCHANGED <<srv, conn>>

\* Any step of a thread inside wait_for_pairing.
WaitStep(k) ==
    \/ LoopTop(k) \/ Accept(k) \/ Sleep(k) \/ Prepare(k) \/ ReadFirst(k)
    \/ RawWrite(k) \/ HttpHeader(k) \/ HttpBody(k) \/ HttpWrite(k) \/ Finish(k)

\* ------------------------------------------------------------- the client
ClientConnect(i, sc) ==
    /\ conn.st \in {"none", "closed"}
    /\ srv[i].listener
    /\ conn' = [NoConn EXCEPT !.st = "pending", !.inst = i, !.script = sc]
    /\ UNCHANGED <<srv, task>>

\* The client writes its first piece, or all that is left.  The server cannot
\* tell what was written before accept() from what is written right after it,
\* so the client's writes and its close are taken from accept() on.
ClientSend ==
    /\ conn.st = "accepted"
    /\ ~conn.closed
    /\ conn.sent < Len(StreamOf(conn.script))
    /\ conn' = [conn EXCEPT !.sent = IF @ < CutOf(conn.script) THEN CutOf(conn.script)
                                     ELSE Len(StreamOf(conn.script))]
    /\ UNCHANGED <<srv, task>>

\* The client closes its end.
ClientClose ==
    /\ conn.st = "accepted"
    /\ ~conn.closed
    /\ conn' = [conn EXCEPT !.closed = TRUE]
    /\ UNCHANGED <<srv, task>>

\* ------------------------------------------------- the link to a device
Threads == 1..MaxThreads
Clients == 1..MaxClients
ConnIds == {"a", "b"}
\* The token a device puts in a line: a provisional one in a pending line, else
\* one by the position of the request it answers.
DevToken(n, form) ==
    IF form \in {"pending", "pending_token"} THEN "T0"
    ELSE IF n = 1 THEN "T1" ELSE IF n = 2 THEN "T2" ELSE "T3"
\* The token a caller logs in with.
LoginTokens == {"t1"}

\* The response lines a device writes, by their JSON members: "absent" for a
\* member that is not there, "null" for null.
LineForms ==
    {"pending", "pending_token", "granted", "rejected", "rejected_token",
     "refused", "refused_bare", "accepted", "null_token", "no_success", "garbage"}
PendingForms == {"pending", "pending_token"}
\* The lines of a device that keeps to the protocol.
HandshakeForms == {"pending", "granted", "refused", "accepted"}
Members(form, tok) ==
    LET none == [success |-> "absent", message |-> "absent", token |-> "absent",
                 rejected |-> "absent", pending |-> "absent"]
    IN  CASE form = "pending" ->
                [none EXCEPT !.success = "true", !.pending = "true"]
          [] form = "pending_token" ->
                [none EXCEPT !.success = "true", !.pending = "true", !.token = tok]
          [] form = "granted" ->
                [none EXCEPT !.success = "true", !.token = tok, !.rejected = "false"]
          [] form = "rejected" ->
                [none EXCEPT !.success = "true", !.rejected = "true"]
          [] form = "rejected_token" ->
                [none EXCEPT !.success = "false", !.rejected = "true", !.token = tok,
                             !.message = "denied"]
          [] form = "refused" ->
                [none EXCEPT !.success = "false", !.message = "refused",
                             !.pending = "false"]
          [] form = "refused_bare" ->
                [none EXCEPT !.success = "false"]
          [] form = "accepted" ->
                [none EXCEPT !.success = "true", !.message = "welcome"]
          [] form = "null_token" ->
                [none EXCEPT !.success = "true", !.token = "null", !.message = "null"]
          [] form = "no_success" ->
                [none EXCEPT !.token = tok]
          [] OTHER -> none

Line(form, rid, tok) == [form |-> form, rid |-> rid, tok |-> tok]
NoLine == Line("none", 0, "none")

\* serde_json::from_str::<AuthResponse>(line.trim()): success is required, the
\* other members are Options, None when absent or null.
OptionOf(v) == IF v \in {"absent", "null"} THEN "none" ELSE v
ParseAuthResponse(line) ==
    LET m == Members(line.form, line.tok)
    IN  IF line.form \in {"garbage", "none"} \/ m.success \in {"absent", "null"}
        THEN [ok |-> FALSE, success |-> FALSE, message |-> "none", token |-> "none",
              rejected |-> "none", pending |-> "none"]
        ELSE [ok |-> TRUE, success |-> m.success = "true",
              message |-> OptionOf(m.message), token |-> OptionOf(m.token),
              rejected |-> OptionOf(m.rejected), pending |-> OptionOf(m.pending)]
\* Option<bool>::unwrap_or(false)
UnwrapOrFalse(v) == v = "true"
\* Option<String>::unwrap_or(default)
UnwrapOr(v, default) == IF v = "none" THEN default ELSE v

\* Results of request_token and login: Ok(token), Ok(()) as Ok(""), Err(message).
LOk(tok) == [ok |-> TRUE, token |-> tok, err |-> ""]
LErr(m) == [ok |-> FALSE, token |-> "", err |-> m]
LNone == LErr("none")

\* request_token after its first read: wait for the decision, or the result.
FirstIsPending_Never(r) == FALSE
FirstIsPending(r) == UnwrapOrFalse(r.pending)
AfterFirst(r) ==
    IF r.token # "none" THEN LOk(r.token)
    ELSE LErr(UnwrapOr(r.message, "Failed to get token"))
\* request_token after its second read.
AfterSecond_TokenFirst(r) ==
    IF r.token # "none" THEN LOk(r.token)
    ELSE IF UnwrapOrFalse(r.rejected) THEN LErr("Authorization rejected by user")
    ELSE LErr("No token in authorization response")
AfterSecond(r) ==
    IF UnwrapOrFalse(r.rejected) THEN LErr("Authorization rejected by user")
    ELSE IF r.token # "none" THEN LOk(r.token)
    ELSE LErr("No token in authorization response")
\* login after its read.
LoginResult_Always(r) == LOk("")
LoginResult(r) ==
    IF r.success THEN LOk("")
    ELSE LErr(UnwrapOr(r.message, "Login failed"))

\* AuthRequest as send_json writes it, one line.
Request(action, rid, token) == [action |-> action, rid |-> rid, token |-> token]

\* An instance: its connection_id ("" before it exists), whether its stream is
\* open, the owners of it (the local of connect_to_android, the registry's Arc,
\* a caller's Arc), the calls begun on it, the request lines written to the
\* device, the response lines that have arrived, and the device's position.
NoClient == [id |-> "", open |-> FALSE, refs |-> 0, calls |-> 0, wire |-> <<>>,
             inbox |-> <<>>, next |-> 1, deciding |-> FALSE]
\* AndroidSocketClient::connect on success: the stream is open, nothing sent.
NewClient(id) == [NoClient EXCEPT !.id = id, !.open = TRUE, !.refs = 1]

\* A thread: its position in request_token or login (pc, with the call's data),
\* its position in a command (cmd) with the command's result (out), and the
\* instance it holds a reference to.
IdleThread == [pc |-> "idle", op |-> "none", c |-> 0, id |-> "", arg |-> "none",
               rid |-> 0, first |-> NoLine, second |-> NoLine, res |-> LNone,
               writes |-> 0, reads |-> 0, cmd |-> "none", out |-> LNone, held |-> 0]

\* A registry entry.
NoEntry == [c |-> 0, log |-> <<>>]

\* A thread begins request_token or login on instance c: the request is built.
LinkCall(t, c, op, arg) ==
    /\ th[t].pc \in {"idle", "returned"}
    /\ cl[c].open
    /\ cl[c].calls < MaxCalls
    /\ th' = [th EXCEPT ![t] = [IdleThread EXCEPT !.pc = "send", !.op = op, !.c = c,
                                                  !.arg = arg, !.rid = cl[c].calls + 1]]
    /\ cl' = [cl EXCEPT ![c].calls = @ + 1]
    /\ UNCHANGED <<notLink, regVars>>

\* send_json: the line is written and flushed while the stream's lock is held.
SendJson(t) ==
    /\ th[t].pc = "send"
    /\ cl' = [cl EXCEPT ![th[t].c].wire =
                  Append(@, Request(th[t].op, th[t].rid, th[t].arg))]
    /\ th' = [th EXCEPT ![t].pc = "read1", ![t].writes = @ + 1]
    /\ UNCHANGED <<notLink, regVars>>

\* send_json when write_all or flush fails: the call returns the error.
SendFails(t) ==
    /\ th[t].pc = "send"
    /\ th' = [th EXCEPT ![t].pc = "returned", ![t].res = LErr("Failed to send")]
    /\ UNCHANGED <<cl, notLink, regVars>>

\* request_token that waits again when its second response is pending.
ReadJson_WaitsAgain(t) ==
    /\ th[t].pc \in {"read1", "read2"}
    /\ cl[th[t].c].inbox # <<>>
    /\ LET line == Head(cl[th[t].c].inbox)
           r == ParseAuthResponse(line)
           got == IF th[t].pc = "read1"
                  THEN [th[t] EXCEPT !.first = line, !.reads = @ + 1]
                  ELSE [th[t] EXCEPT !.second = line, !.reads = @ + 1]
           ret(res) == [got EXCEPT !.pc = "returned", !.res = res]
       IN  /\ cl' = [cl EXCEPT ![th[t].c].inbox = <<>>]
           /\ th' = [th EXCEPT ![t] =
                  IF ~r.ok THEN ret(LErr("Failed to parse JSON"))
                  ELSE IF th[t].op = "login" THEN ret(LoginResult(r))
                  ELSE IF FirstIsPending(r) THEN [got EXCEPT !.pc = "read2"]
                  ELSE IF th[t].pc = "read2" THEN ret(AfterSecond(r))
                  ELSE ret(AfterFirst(r))]
    /\ UNCHANGED <<notLink, regVars>>

\* read_json on a line that has arrived, then the caller's decision on it. The
\* lock is held for try_clone only; the BufReader of this read takes all that
\* has arrived, gives the first line, and is dropped with the rest.
ReadJson(t) ==
    /\ th[t].pc \in {"read1", "read2"}
    /\ cl[th[t].c].inbox # <<>>
    /\ LET line == Head(cl[th[t].c].inbox)
           r == ParseAuthResponse(line)
           got == IF th[t].pc = "read1"
                  THEN [th[t] EXCEPT !.first = line, !.reads = @ + 1]
                  ELSE [th[t] EXCEPT !.second = line, !.reads = @ + 1]
           ret(res) == [got EXCEPT !.pc = "returned", !.res = res]
       IN  /\ cl' = [cl EXCEPT ![th[t].c].inbox = <<>>]
           /\ th' = [th EXCEPT ![t] =
                  IF ~r.ok THEN ret(LErr("Failed to parse JSON"))
                  ELSE IF th[t].op = "login" THEN ret(LoginResult(r))
                  ELSE IF th[t].pc = "read2" THEN ret(AfterSecond(r))
                  ELSE IF FirstIsPending(r) THEN [got EXCEPT !.pc = "read2"]
                  ELSE ret(AfterFirst(r))]
    /\ UNCHANGED <<notLink, regVars>>

\* read_json when try_clone fails, or when no line arrives within the read
\* timeout of 30 seconds.
ReadFails(t) ==
    /\ th[t].pc \in {"read1", "read2"}
    /\ \E e \in {"Failed to clone stream", "Failed to read response"} :
          /\ e = "Failed to read response" => cl[th[t].c].inbox = <<>>
          /\ th' = [th EXCEPT ![t].pc = "returned", ![t].res = LErr(e)]
    /\ UNCHANGED <<cl, notLink, regVars>>

\* The device answers the oldest request it has not answered, with a line of
\* one of the given forms that carries the request's id. Only request_token is
\* answered with pending.
DeviceReply(c, forms) ==
    /\ cl[c].open
    /\ ~cl[c].deciding
    /\ cl[c].next <= Len(cl[c].wire)
    /\ LET req == cl[c].wire[cl[c].next]
       IN  \E f \in forms :
              /\ req.action = "login" => f \notin PendingForms
              /\ cl' = [cl EXCEPT ![c].inbox = Append(@, Line(f, req.rid, DevToken(cl[c].next, f))),
                                  ![c].deciding = f \in PendingForms,
                                  ![c].next = IF f \in PendingForms THEN @ ELSE @ + 1]
    /\ UNCHANGED <<th, notLink, regVars>>

\* The device's user decides on the request that was answered with pending.
DeviceDecide(c, forms) ==
    /\ cl[c].open
    /\ cl[c].deciding
    /\ LET req == cl[c].wire[cl[c].next]
       IN  \E f \in forms \ PendingForms :
              cl' = [cl EXCEPT ![c].inbox = Append(@, Line(f, req.rid, DevToken(cl[c].next, f))),
                               ![c].deciding = FALSE,
                               ![c].next = @ + 1]
    /\ UNCHANGED <<th, notLink, regVars>>

\* ------------------------------------------------------- the port probes
\* The start ports tried: the one start_temp_server is given by the front end,
\* the last one whose range fits u16, the first one whose range does not.
StartPorts == {10035, 65435, 65436}
\* The ports whose holding by other sockets is followed one by one; all the
\* other ports are held or free together.
WatchedPorts == {10035, 10036, 10135, 65435, 65436, 65535}

\* The caller: where it is (idle, check: about to bind, bound: the bind was
\* made, done), the operation, its arguments and locals, whether its test
\* listener exists, its result, the ports of this scan that a check found
\* available, the checks of this scan, and the check made before this one.
NoProbe == [pc |-> "idle", op |-> "none", start |-> 0, port |-> 0, last |-> 0,
            bind |-> FALSE, res |-> "none", val |-> 0, free |-> {}, tried |-> 0,
            prev |-> [port |-> 0, res |-> "none"]]
NoNet == [held |-> {}, rest |-> FALSE, probe |-> NoProbe]

\* Whether a socket other than the caller's test listener holds the port.
Held(p) == IF p \in WatchedPorts THEN p \in net.held ELSE net.rest

\* Another program binds or releases a port, or all the ports not watched.
OtherBinds(p) ==
    /\ p \notin net.held
    /\ ~(net.probe.pc = "bound" /\ net.probe.bind /\ net.probe.port = p)
    /\ net' = [net EXCEPT !.held = @ \cup {p}]
    /\ UNCHANGED notNet
OtherReleases(p) ==
    /\ p \in net.held
    /\ net' = [net EXCEPT !.held = @ \ {p}]
    /\ UNCHANGED notNet
OthersToggle ==
    /\ ~(net.probe.pc = "bound" /\ net.probe.bind /\ net.probe.port \notin WatchedPorts)
    /\ net' = [net EXCEPT !.rest = ~@]
    /\ UNCHANGED notNet

\* check_port_available(port) is called on its own.
CheckCall(p) ==
    /\ net.probe.pc \in {"idle", "done"}
    /\ net' = [net EXCEPT !.probe =
           [NoProbe EXCEPT !.pc = "check", !.op = "check", !.port = p,
                           !.prev = IF net.probe.op = "check"
                                    THEN [port |-> net.probe.port, res |-> net.probe.res]
                                    ELSE NoProbe.prev]]
    /\ UNCHANGED notNet

\* TcpListener::bind("127.0.0.1:port"): it succeeds when no other socket holds
\* the port, and the test listener then holds it.
TestBind ==
    /\ net.probe.pc = "check"
    /\ net' = [net EXCEPT !.probe.pc = "bound", !.probe.bind = ~Held(net.probe.port)]
    /\ UNCHANGED notNet

\* What the caller does with the outcome of a check: check_port_available
\* returns it; find_available_port returns the port when it is available,
\* goes on to the next port while the range lasts, and returns None after it.
AfterCheck(pr, ok) ==
    IF pr.op = "check"
    THEN [pr EXCEPT !.pc = "done", !.res = IF ok THEN "true" ELSE "false"]
    ELSE LET seen == [pr EXCEPT !.tried = @ + 1,
                                !.free = IF ok THEN @ \cup {pr.port} ELSE @]
         IN  IF ok THEN [seen EXCEPT !.pc = "done", !.res = "Some", !.val = pr.port]
             ELSE IF pr.port < pr.last
                  THEN [seen EXCEPT !.pc = "check", !.port = @ + 1]
             ELSE [seen EXCEPT !.pc = "done", !.res = "None"]

\* .is_ok() keeping the test listener.
TestDrop_Keeps ==
    /\ net.probe.pc = "bound"
    /\ net' = [net EXCEPT !.probe = AfterCheck(net.probe, net.probe.bind),
                          !.held = IF net.probe.bind /\ net.probe.port \in WatchedPorts
                                   THEN @ \cup {net.probe.port} ELSE @]
    /\ UNCHANGED notNet

\* .is_ok(): the Result is a temporary, the test listener in it is dropped
\* before check_port_available returns.
TestDrop ==
    /\ net.probe.pc = "bound"
    /\ net' = [net EXCEPT !.probe =
           [AfterCheck(net.probe, net.probe.bind) EXCEPT !.bind = FALSE]]
    /\ UNCHANGED notNet

\* find_available_port(start_port): end_port = start_port + 100 in u16. When
\* the sum does not fit, a build with overflow checks panics and a build
\* without them wraps, which leaves an empty range.
FindCall(start) ==
    /\ net.probe.pc \in {"idle", "done"}
    /\ \E checked \in BOOLEAN :
          LET sum == start + ScanSpan
              end == sum % PortModulus
              pr == [NoProbe EXCEPT !.op = "find", !.start = start, !.port = start,
                                    !.last = end]
          IN  net' = [net EXCEPT !.probe =
                  IF sum >= PortModulus /\ checked
                  THEN [pr EXCEPT !.pc = "done", !.res = "panic"]
                  ELSE IF start > end
                  THEN [pr EXCEPT !.pc = "done", !.res = "None"]
                  ELSE [pr EXCEPT !.pc = "check"]]
    /\ UNCHANGED notNet

\* ----------------------------------------------------- the link registry
\* An owner of instance c goes away: the stream closes with the last owner.
Unref_Closes(cls, c) ==
    IF c = 0 THEN cls
    ELSE [cls EXCEPT ![c] = [NoClient EXCEPT !.id = cls[c].id]]
Unref(cls, c) ==
    IF c = 0 THEN cls
    ELSE IF cls[c].refs > 1 THEN [cls EXCEPT ![c].refs = @ - 1]
    ELSE [cls EXCEPT ![c] = [NoClient EXCEPT !.id = cls[c].id]]

\* The instance the next successful connect makes.
Fresh(c) ==
    /\ cl[c].id = ""
    /\ \A d \in Clients : d < c => cl[d].id # ""

\* A thread whose command has returned: the result, and the reference it holds.
Done(t, out) == [IdleThread EXCEPT !.cmd = "done", !.out = out, !.held = th[t].held]

CanCommand(t) ==
    /\ th[t].cmd \in {"none", "done"}
    /\ th[t].pc \in {"idle", "returned"}

\* connect_to_android taking the registry's write lock before it connects.
ConnectBegin_Locked(t, id, token) ==
    /\ CanCommand(t)
    /\ lk = 0
    /\ lk' = t
    /\ \E c \in Clients :
          /\ Fresh(c)
          /\ cl' = [cl EXCEPT ![c] = [NewClient(id) EXCEPT !.calls = 1]]
          /\ th' = [th EXCEPT ![t] =
                 [IdleThread EXCEPT !.pc = "send", !.c = c, !.id = id, !.rid = 1,
                                    !.op = IF token = "none" THEN "request_token"
                                           ELSE "login",
                                    !.arg = token, !.cmd = "connect",
                                    !.held = th[t].held]]
    /\ UNCHANGED <<notLink, reg>>

\* connect_to_android up to its handshake: connect succeeded, the handshake's
\* request is built (login with the token given, else request_token).
ConnectBegin(t, id, token) ==
    /\ CanCommand(t)
    /\ \E c \in Clients :
          /\ Fresh(c)
          /\ cl' = [cl EXCEPT ![c] = [NewClient(id) EXCEPT !.calls = 1]]
          /\ th' = [th EXCEPT ![t] =
                 [IdleThread EXCEPT !.pc = "send", !.c = c, !.id = id, !.rid = 1,
                                    !.op = IF token = "none" THEN "request_token"
                                           ELSE "login",
                                    !.arg = token, !.cmd = "connect",
                                    !.held = th[t].held]]
    /\ UNCHANGED <<notLink, regVars>>

\* connect_to_android when AndroidSocketClient::connect fails.
ConnectRefused(t, id) ==
    /\ CanCommand(t)
    /\ th' = [th EXCEPT ![t] = Done(t, LErr("Connection failed"))]
    /\ UNCHANGED <<cl, notLink, regVars>>

\* connect_to_android when its handshake failed, taking the entry of its
\* connection_id out of the registry.
ConnectFails_DropsEntry(t) ==
    /\ th[t].cmd = "connect"
    /\ th[t].pc = "returned"
    /\ ~th[t].res.ok
    /\ reg' = [reg EXCEPT ![th[t].id].c = 0]
    /\ cl' = Unref(Unref(cl, th[t].c), reg[th[t].id].c)
    /\ th' = [th EXCEPT ![t] = Done(t, th[t].res)]
    /\ UNCHANGED <<notLink, lk>>

\* connect_to_android when its handshake failed: the error is returned and the
\* instance, owned by the command alone, is dropped.
ConnectFails(t) ==
    /\ th[t].cmd = "connect"
    /\ th[t].pc = "returned"
    /\ ~th[t].res.ok
    /\ cl' = Unref(cl, th[t].c)
    /\ th' = [th EXCEPT ![t] = Done(t, th[t].res)]
    /\ UNCHANGED <<notLink, regVars>>

\* connect_to_android after its handshake succeeded: clients.write() gives the
\* write lock once no other thread has it.
ConnectLock(t) ==
    /\ th[t].cmd = "connect"
    /\ th[t].pc = "returned"
    /\ th[t].res.ok
    /\ lk = 0
    /\ lk' = t
    /\ th' = [th EXCEPT ![t].cmd = "insert"]
    /\ UNCHANGED <<cl, reg, notLink>>

\* insert(connection_id, Arc::new(client)) keeping an entry that is there.
ConnectInsert_KeepsEntry(t) ==
    /\ th[t].cmd = "insert"
    /\ lk = t
    /\ LET old == reg[th[t].id].c
           new == IF old = 0 THEN th[t].c ELSE old
       IN  /\ reg' = [reg EXCEPT ![th[t].id] =
                          [c |-> new, log |-> Append(@.log, th[t].c)]]
           /\ cl' = IF old = 0 THEN cl ELSE Unref(cl, th[t].c)
    /\ lk' = 0
    /\ th' = [th EXCEPT ![t] =
           Done(t, IF th[t].op = "login" THEN LOk(th[t].arg) ELSE th[t].res)]
    /\ UNCHANGED notLink

\* insert(connection_id, Arc::new(client)) under the write lock: the instance
\* goes into the registry, the entry it replaces is dropped, the lock is
\* released at the end of the statement. The command returns the token used.
ConnectInsert(t) ==
    /\ th[t].cmd = "insert"
    /\ lk = t
    /\ reg' = [reg EXCEPT ![th[t].id] = [c |-> th[t].c, log |-> Append(@.log, th[t].c)]]
    /\ cl' = Unref(cl, reg[th[t].id].c)
    /\ lk' = 0
    /\ th' = [th EXCEPT ![t] =
           Done(t, IF th[t].op = "login" THEN LOk(th[t].arg) ELSE th[t].res)]
    /\ UNCHANGED notLink

\* disconnect_android: clients.write() gives the write lock once no other
\* thread has it.
DisconnectLock(t, id) ==
    /\ CanCommand(t)
    /\ lk = 0
    /\ lk' = t
    /\ th' = [th EXCEPT ![t] =
           [IdleThread EXCEPT !.cmd = "remove", !.id = id, !.held = th[t].held]]
    /\ UNCHANGED <<cl, reg, notLink>>

\* remove(&connection_id) under the write lock: the entry is removed and
\* dropped, the lock is released at the end of the statement.
Disconnect(t) ==
    /\ th[t].cmd = "remove"
    /\ lk = t
    /\ reg' = [reg EXCEPT ![th[t].id] =
                   [c |-> 0, log |-> IF @.c = 0 THEN @.log ELSE Append(@.log, 0)]]
    /\ cl' = Unref(cl, reg[th[t].id].c)
    /\ lk' = 0
    /\ th' = [th EXCEPT ![t] = Done(t, LOk(""))]
    /\ UNCHANGED notLink

\* A caller takes a reference to the instance stored under id.
Hold(t, id) ==
    /\ CanCommand(t)
    /\ th[t].held = 0
    /\ lk = 0
    /\ reg[id].c # 0
    /\ th' = [th EXCEPT ![t].held = reg[id].c]
    /\ cl' = [cl EXCEPT ![reg[id].c].refs = @ + 1]
    /\ UNCHANGED <<notLink, regVars>>

\* The caller lets its reference go.
Release(t) ==
    /\ th[t].held # 0
    /\ th' = [th EXCEPT ![t].held = 0]
    /\ cl' = Unref(cl, th[t].held)
    /\ UNCHANGED <<notLink, regVars>>

\* ---------------------------------------------------- coordinator state
NoStatus == [some |-> FALSE, running |-> FALSE, port |-> 0, waiting |-> FALSE]
\* What a status query found when it read: the instance held, and whether a
\* wait_for_pairing call was in progress on it.
NoSeen == [held |-> FALSE, running |-> FALSE, port |-> 0, waiting |-> FALSE,
           loop |-> FALSE]
IdleCmd == [op |-> "none", pc |-> "done", port |-> 0, inst |-> 0, err |-> "",
            status |-> NoStatus, seen |-> NoSeen]
FreeBg == [pc |-> "free", inst |-> 0]

\* RwLock (parking_lot): a writer first claims the writer bit, which it can do
\* while readers hold the lock, then waits for the readers to leave; a reader
\* is admitted only while the writer bit is clear.
RwFree == [writer |-> 0, readers |-> {}]
CanClaimWrite == rw.writer = 0
CanWrite(c) == rw.writer = c /\ rw.readers = {}
CanRead == rw.writer = 0

\* Drop for TempServer: running = false, listener = None; the port is free and
\* a connection still in the backlog is reset.
Dropped(i) == [srv EXCEPT ![i] = NoServer]
ConnAfterDrop(i) ==
    IF conn.st = "pending" /\ conn.inst = i THEN [conn EXCEPT !.st = "closed"] ELSE conn

\* TcpListener::bind("0.0.0.0:port") succeeds when no listener holds the port.
BindOk(port) == \A i \in Instances : ~(srv[i].listener /\ srv[i].port = port)

\* TempServerStatus as get_temp_server_status builds it from the held server.
StatusOf_ReportsWaiting(s) ==
    [some |-> TRUE, running |-> s.running, port |-> s.port, waiting |-> s.waiting]
StatusOf(s) ==
    [some |-> TRUE, running |-> s.running, port |-> s.port, waiting |-> FALSE]

\* A command is invoked.
Invoke(c, op, port) ==
    /\ cmd[c].pc = "done"
    /\ cmd' = [cmd EXCEPT ![c] =
            [IdleCmd EXCEPT !.op = op, !.port = port,
                            !.pc = CASE op = "start"  -> "s_claim"
                                     [] op = "stop"   -> "t_claim"
                                     [] OTHER         -> "q_read"]]
    /\ UNCHANGED <<listenerVars, slot, rw, bg>>

\* state.temp_server.write(): the writer bit is claimed.
ClaimWrite(c) ==
    /\ cmd[c].pc \in {"s_claim", "s_claim2", "t_claim"}
    /\ CanClaimWrite
    /\ rw' = [rw EXCEPT !.writer = c]
    /\ cmd' = [cmd EXCEPT ![c].pc = CASE @ = "s_claim"  -> "s_clear"
                                      [] @ = "s_claim2" -> "s_install"
                                      [] OTHER          -> "t_take"]
    /\ UNCHANGED <<listenerVars, slot, bg>>

\* start_temp_server: *temp_server_lock = None under the write lock.
StartClear(c) ==
    /\ cmd[c].pc = "s_clear"
    /\ CanWrite(c)
    /\ slot' = 0
    /\ srv' = IF slot = 0 THEN srv ELSE Dropped(slot)
    /\ conn' = IF slot = 0 THEN conn ELSE ConnAfterDrop(slot)
    /\ rw' = [rw EXCEPT !.writer = 0]
    /\ cmd' = [cmd EXCEPT ![c].pc = "s_new"]
    /\ UNCHANGED <<task, bg>>

\* start_temp_server that goes on to install and spawn after a failed bind.
StartNew_GoesOn(c) ==
    /\ cmd[c].pc = "s_new"
    /\ \/ /\ BindOk(cmd[c].port)
          /\ \E i \in Instances : ~srv[i].alive
          /\ LET i == CHOOSE i \in Instances :
                          ~srv[i].alive /\ \A j \in Instances : ~srv[j].alive => i <= j
             IN  /\ srv' = [srv EXCEPT ![i] = NewServer(cmd[c].port)]
                 /\ cmd' = [cmd EXCEPT ![c].pc = "s_claim2", ![c].inst = i]
       \/ /\ cmd' = [cmd EXCEPT ![c].pc = "s_claim2", ![c].err = "Failed to bind port"]
          /\ UNCHANGED srv
    /\ UNCHANGED <<task, conn, slot, rw, bg>>

\* start_temp_server: after the 100 ms sleep, TempServer::new(port)?. The bind
\* succeeds only when no listener of this program holds the port, and fails
\* then and whenever something outside the program stands in its way (the
\* port held by another program, no permission): the error is returned.
StartNew(c) ==
    /\ cmd[c].pc = "s_new"
    /\ \/ /\ BindOk(cmd[c].port)
          /\ \E i \in Instances : ~srv[i].alive
          /\ LET i == CHOOSE i \in Instances :
                          ~srv[i].alive /\ \A j \in Instances : ~srv[j].alive => i <= j
             IN  /\ srv' = [srv EXCEPT ![i] = NewServer(cmd[c].port)]
                 /\ cmd' = [cmd EXCEPT ![c].pc = "s_claim2", ![c].inst = i]
       \/ /\ cmd' = [cmd EXCEPT ![c].pc = "done", ![c].err = "Failed to bind port"]
          /\ UNCHANGED srv
    /\ UNCHANGED <<task, conn, slot, rw, bg>>

\* start_temp_server: *state.temp_server.write() = Some(server); the value
\* that was there is dropped.
StartInstall(c) ==
    /\ cmd[c].pc = "s_install"
    /\ CanWrite(c)
    /\ slot' = cmd[c].inst
    /\ srv' = IF slot = 0 THEN srv ELSE Dropped(slot)
    /\ conn' = IF slot = 0 THEN conn ELSE ConnAfterDrop(slot)
    /\ rw' = [rw EXCEPT !.writer = 0]
    /\ cmd' = [cmd EXCEPT ![c].pc = "s_spawn"]
    /\ UNCHANGED <<task, bg>>

\* start_temp_server: spawn_blocking of the background listener task, then
\* Ok(actual_port).
StartSpawn(c) ==
    /\ cmd[c].pc = "s_spawn"
    /\ \E k \in Tasks : bg[k].pc = "free"
    /\ LET k == CHOOSE k \in Tasks :
                    bg[k].pc = "free" /\ \A j \in Tasks : bg[j].pc = "free" => k <= j
       IN  bg' = [bg EXCEPT ![k].pc = "b_read"]
    /\ cmd' = [cmd EXCEPT ![c].pc = "done"]
    /\ UNCHANGED <<listenerVars, slot, rw>>

\* The background task: temp_server_arc.read(), then server_guard.as_ref().
\* The guard lives until the closure ends.
BgRead(k) ==
    /\ bg[k].pc = "b_read"
    /\ CanRead
    /\ IF slot = 0
       THEN /\ bg' = [bg EXCEPT ![k] = FreeBg]
            /\ UNCHANGED rw
       ELSE /\ bg' = [bg EXCEPT ![k].pc = "b_loop", ![k].inst = slot]
            /\ rw' = [rw EXCEPT !.readers = @ \cup {k}]
    /\ UNCHANGED <<listenerVars, slot, cmd>>

\* The background task's loop: server.wait_for_pairing(180), again after Ok
\* and after every error but "Server stopped", on which it breaks: the closure
\* ends and the read guard is released.
BgLoop(k) ==
    /\ bg[k].pc = "b_loop"
    /\ IF task[k].pc = "returned" /\ task[k].res = Err("Server stopped")
       THEN /\ bg' = [bg EXCEPT ![k] = FreeBg]
            /\ task' = [task EXCEPT ![k] = IdleTask]
            /\ rw' = [rw EXCEPT !.readers = @ \ {k}]
            /\ UNCHANGED <<srv, conn, slot, cmd>>
       ELSE /\ WaitBegin(k, bg[k].inst, BgTimeoutSecs)
            /\ conn' = IF conn.st = "closed" THEN NoConn ELSE conn
            /\ UNCHANGED cmdVars

\* stop_temp_server: under the write lock, take() the server, stop() it and
\* drop it, all before the lock is released; Ok(()).
StopTake(c) ==
    /\ cmd[c].pc = "t_take"
    /\ CanWrite(c)
    /\ slot' = 0
    /\ srv' = IF slot = 0 THEN srv ELSE Dropped(slot)
    /\ conn' = IF slot = 0 THEN conn ELSE ConnAfterDrop(slot)
    /\ rw' = [rw EXCEPT !.writer = 0]
    /\ cmd' = [cmd EXCEPT ![c].pc = "done"]
    /\ UNCHANGED <<task, bg>>

\* get_temp_server_status: under the read lock, the status of the held server.
StatusRead(c) ==
    /\ cmd[c].pc = "q_read"
    /\ CanRead
    /\ cmd' = [cmd EXCEPT
            ![c].pc = "done",
            ![c].status = IF slot = 0 THEN NoStatus ELSE StatusOf(srv[slot]),
            ![c].seen = IF slot = 0 THEN NoSeen
                        ELSE [held |-> TRUE, running |-> srv[slot].running,
                              port |-> srv[slot].port, waiting |-> srv[slot].waiting,
                              loop |-> \E k \in Tasks :
                                          task[k].inst = slot /\ task[k].pc \in LoopPcs]]
    /\ UNCHANGED <<listenerVars, slot, rw, bg>>

\* The client start_temp_server itself spawns (AutoTest): seven seconds after
\* the start it connects to the port and writes one HTTP POST /pair request
\* with a well-formed body, in one piece.
AutoTestScript == Script("http", "plain", "u1", "t1", "exact", "whole", "POST", "/pair")

\* ------------------------------------------- the listener on its own: Spec
\* The errors of wait_for_pairing that leave the attempt to be made again: the
\* timeout, and a payload that was rejected (no length, or not the JSON wanted).
InvalidPayloadErrs ==
    {Err("Failed to parse pairing data"), Err("Invalid JSON"),
     Err("No content in POST request")}
FailureKind(res) ==
    IF res = Err("Timeout waiting for pairing") THEN "timeout"
    ELSE IF res \in InvalidPayloadErrs THEN "invalid"
    ELSE "none"

\* One TempServer, constructed; one thread calls wait_for_pairing on it, again
\* after every return; another calls stop() at any moment; clients connect.
Init ==
    /\ srv = [i \in Instances |-> IF i = 1 THEN NewServer(10057) ELSE NoServer]
    /\ task = [k \in Tasks |-> IdleTask]
    /\ conn = NoConn
    /\ slot = 0
    /\ rw = RwFree
    /\ cmd = [c \in Callers |-> IdleCmd]
    /\ bg = [k \in Tasks |-> FreeBg]
    /\ hist = "none"
    /\ cl = [c \in Clients |-> NoClient]
    /\ th = [t \in Threads |-> IdleThread]
    /\ reg = [id \in ConnIds |-> NoEntry]
    /\ lk = 0
    /\ net = NoNet
    /\ ss = NoSimple

\* The record of a connection that is over is dropped when the next call begins.
Call(secs) ==
    /\ WaitBegin(1, 1, secs)
    /\ conn' = IF conn.st = "closed" THEN NoConn ELSE conn
    /\ UNCHANGED <<cmdVars, otherVars>>

Stop ==
    /\ srv[1].alive
    /\ srv[1].stops < MaxStops
    /\ srv' = [srv EXCEPT ![1] = [StopServer(@) EXCEPT !.stops = @ + 1]]
    /\ task' = [k \in Tasks |->
            IF InCall(k) /\ task[k].inst = 1 /\ task[k].stopAt < 0
            THEN [task[k] EXCEPT !.stopAt = task[k].elapsed]
            ELSE task[k]]
    /\ UNCHANGED <<conn, cmdVars, otherVars>>

\* The owner of the TempServer lets it go out of scope (Drop), which it can
\* do only when no call borrows it.
Drop ==
    /\ srv[1].alive
    /\ \A k \in Tasks : ~(InCall(k) /\ task[k].inst = 1)
    /\ srv' = Dropped(1)
    /\ conn' = ConnAfterDrop(1)
    /\ UNCHANGED <<task, cmdVars, otherVars>>

Step == \E k \in Tasks : WaitStep(k) /\ UNCHANGED <<cmdVars, otherVars>>
Stall == \E k \in Tasks : ReadStall(k) /\ UNCHANGED <<cmdVars, otherVars>>
\* A connection made between two calls waits in the backlog like one made
\* right after the next call begins: it is taken as the latter.
Connect ==
    /\ task[1].pc # "returned"
    /\ \E sc \in Scripts : ClientConnect(1, sc)
    /\ UNCHANGED <<cmdVars, otherVars>>
Send == ClientSend /\ UNCHANGED <<cmdVars, otherVars>>
Close == ClientClose /\ UNCHANGED <<cmdVars, otherVars>>

Next ==
    \/ \E secs \in TimeoutSecs : Call(secs)
    \/ Stop
    \/ Drop
    \/ Step
    \/ Stall
    \/ Connect
    \/ Send
    \/ Close

Spec == Init /\ [][Next]_vars

\* ------------------------------------- one call after another: RetrySpec
\* The same listener and harness, which here keep how the previous call
\* failed; the clients send a well-formed payload, a truncated one, or a POST
\* with a zero Content-Length.
RetryScripts ==
    {Script("raw", "plain", "u1", "t1", "nl", "whole", "", ""),
     Script("http", "plain", "u2", "t2", "exact", "whole", "POST", "/pair"),
     Script("raw", "truncated", "u1", "t1", "nl", "whole", "", ""),
     Script("http", "truncated", "u1", "t1", "exact", "whole", "POST", "/pair"),
     Script("http", "plain", "u1", "t1", "zero", "whole", "POST", "/pair")}

CallAgain(secs) ==
    /\ WaitBegin(1, 1, secs)
    /\ conn' = IF conn.st = "closed" THEN NoConn ELSE conn
    /\ hist' = FailureKind(task[1].res)
    /\ UNCHANGED <<cmdVars, cl, th, reg, lk, net, ss>>

RetryConnect ==
    /\ task[1].pc # "returned"
    /\ \E sc \in RetryScripts : ClientConnect(1, sc)
    /\ UNCHANGED <<cmdVars, otherVars>>

RetryNext ==
    \/ \E secs \in TimeoutSecs : CallAgain(secs)
    \/ Stop
    \/ Drop
    \/ Step
    \/ Stall
    \/ RetryConnect
    \/ Send
    \/ Close

RetrySpec == Init /\ [][RetryNext]_vars

\* ------------------------------------- the coordinator's commands: CmdSpec
CmdInit ==
    /\ srv = [i \in Instances |-> NoServer]
    /\ task = [k \in Tasks |-> IdleTask]
    /\ conn = NoConn
    /\ slot = 0
    /\ rw = RwFree
    /\ cmd = [c \in Callers |-> IdleCmd]
    /\ bg = [k \in Tasks |-> FreeBg]
    /\ hist = "none"
    /\ cl = [c \in Clients |-> NoClient]
    /\ th = [t \in Threads |-> IdleThread]
    /\ reg = [id \in ConnIds |-> NoEntry]
    /\ lk = 0
    /\ net = NoNet
    /\ ss = NoSimple

CmdInvoke ==
    /\ \E c \in Callers, op \in {"start", "stop", "status"} :
            Invoke(c, op, IF op = "start" THEN 10035 ELSE 0)
    /\ UNCHANGED otherVars
CmdClaim == (\E c \in Callers : ClaimWrite(c)) /\ UNCHANGED otherVars
CmdStartClear == (\E c \in Callers : StartClear(c)) /\ UNCHANGED otherVars
CmdStartNew == (\E c \in Callers : StartNew(c)) /\ UNCHANGED otherVars
CmdStartInstall == (\E c \in Callers : StartInstall(c)) /\ UNCHANGED otherVars
CmdStartSpawn == (\E c \in Callers : StartSpawn(c)) /\ UNCHANGED otherVars
CmdStopTake == (\E c \in Callers : StopTake(c)) /\ UNCHANGED otherVars
CmdStatus == (\E c \in Callers : StatusRead(c)) /\ UNCHANGED otherVars
CmdBgRead == (\E k \in Tasks : BgRead(k)) /\ UNCHANGED otherVars
CmdBgLoop == (\E k \in Tasks : BgLoop(k)) /\ UNCHANGED otherVars
CmdConnect ==
    /\ \E i \in Instances : ClientConnect(i, AutoTestScript)
    /\ UNCHANGED <<cmdVars, otherVars>>

CmdNext ==
    \/ CmdInvoke
    \/ CmdClaim
    \/ CmdStartClear
    \/ CmdStartNew
    \/ CmdStartInstall
    \/ CmdStartSpawn
    \/ CmdStopTake
    \/ CmdStatus
    \/ CmdBgRead
    \/ CmdBgLoop
    \/ CmdConnect
    \/ Step
    \/ Send

CmdSpec == CmdInit /\ [][CmdNext]_vars

\* --------------------------------- calls on one link client: ClientSpec
ClientInit ==
    /\ srv = [i \in Instances |-> NoServer]
    /\ task = [k \in Tasks |-> IdleTask]
    /\ conn = NoConn
    /\ slot = 0
    /\ rw = RwFree
    /\ cmd = [c \in Callers |-> IdleCmd]
    /\ bg = [k \in Tasks |-> FreeBg]
    /\ hist = "none"
    /\ cl = [c \in Clients |-> IF c = 1 THEN NewClient("a") ELSE NoClient]
    /\ th = [t \in Threads |-> IdleThread]
    /\ reg = [id \in ConnIds |-> NoEntry]
    /\ lk = 0
    /\ net = NoNet
    /\ ss = NoSimple

\* One instance, connected; its callers are the threads.
ClientNext ==
    \/ \E t \in Threads : LinkCall(t, 1, "request_token", "none")
    \/ \E t \in Threads, token \in LoginTokens : LinkCall(t, 1, "login", token)
    \/ \E t \in Threads : SendJson(t)
    \/ \E t \in Threads : SendFails(t)
    \/ \E t \in Threads : ReadJson(t)
    \/ \E t \in Threads : ReadFails(t)
    \/ DeviceReply(1, LineForms)
    \/ DeviceDecide(1, LineForms)

ClientSpec == ClientInit /\ [][ClientNext]_vars

\* ------------------------------- the registry's commands: RegistrySpec
\* A line that no call is there to read changes nothing a command can see, and
\* is left out: the device writes while a handshake waits for it.
Awaited(c) == \E t \in Threads : th[t].c = c /\ th[t].pc \in {"read1", "read2"}

RegistryNext ==
    \/ \E t \in Threads, id \in ConnIds, token \in LoginTokens \cup {"none"} :
          ConnectBegin(t, id, token)
    \/ \E t \in Threads, id \in ConnIds : ConnectRefused(t, id)
    \/ \E t \in Threads : SendJson(t)
    \/ \E t \in Threads : SendFails(t)
    \/ \E t \in Threads : ReadJson(t)
    \/ \E t \in Threads : ReadFails(t)
    \/ \E c \in Clients : Awaited(c) /\ DeviceReply(c, HandshakeForms)
    \/ \E c \in Clients : Awaited(c) /\ DeviceDecide(c, HandshakeForms)
    \/ \E t \in Threads : ConnectFails(t)
    \/ \E t \in Threads : ConnectLock(t)
    \/ \E t \in Threads : ConnectInsert(t)
    \/ \E t \in Threads, id \in ConnIds : DisconnectLock(t, id)
    \/ \E t \in Threads : Disconnect(t)
    \/ \E t \in Threads, id \in ConnIds : Hold(t, id)
    \/ \E t \in Threads : Release(t)

RegistrySpec == Init /\ [][RegistryNext]_vars

\* ------------------------------------------ the port probes: PortSpec
PortNext ==
    \/ \E p \in WatchedPorts : OtherBinds(p)
    \/ \E p \in WatchedPorts : OtherReleases(p)
    \/ OthersToggle
    \/ \E p \in WatchedPorts : CheckCall(p)
    \/ \E start \in StartPorts : FindCall(start)
    \/ TestBind
    \/ TestDrop

PortSpec == Init /\ [][PortNext]_vars

\* ------------------------------------------ the SimpleServer: SimpleSpec
SimpleNext ==
    \/ SimpleStart
    \/ SimpleStopCall
    \/ SimpleAccept
    \/ SimpleCheck
    \/ SimpleSleep
    \/ \E j \in Peers : SimpleHandle(j)
    \/ \E j \in Peers, script \in PeerScripts : PeerConnect(j, script)
    \/ \E j \in Peers : PeerSend(j)

SimpleSpec == Init /\ [][SimpleNext]_vars

\* ------------------------------------------------------------- the claims
Budget(k) == task[k].secs * MillisPerSec
\* The call of thread k has returned, and conn is the connection it accepted.
ReturnedWith(k) ==
    task[k].pc = "returned" /\ task[k].got /\ conn.task = k /\ conn.st = "closed"
\* The client got everything it had to write onto the connection.
AllSent == conn.sent = Len(StreamOf(conn.script))
\* A valid {url, token} payload as one raw line, or as the body of a POST to an
\* origin-form path with a Content-Length equal to the body's length.
ValidExchange(sc) ==
    /\ sc.form \in ValidForms
    /\ \/ sc.tr = "raw"
       \/ /\ sc.tr = "http"
          /\ sc.method = "POST"
          /\ sc.path \in {"/pair", "/"}
          /\ sc.len \in {"exact", "lower"}

\* C1: a call that returns for a connection on which a valid {url, token}
\* payload was sent whole, as a raw line or as the body of an HTTP POST with a
\* matching Content-Length, and on which no I/O operation failed, returns
\* Ok(PairingData) with the url and the token that were sent; so the two
\* transports give the same result.
C1_ValidPayloadPairs ==
    \A k \in Tasks :
        (ReturnedWith(k) /\ ValidExchange(conn.script) /\ AllSent /\ conn.fault = "none")
            => task[k].res = Ok([url |-> conn.script.u, token |-> conn.script.t])

C1_Witness ==
    \E k \in Tasks :
        /\ ReturnedWith(k)
        /\ conn.script.tr = "http"
        /\ conn.script.form = "plain"
        /\ conn.script.u = "u2"
        /\ conn.script.t = "t1"
        /\ conn.out = <<Http200>>
        /\ task[k].res = Ok([url |-> "u2", token |-> "t1"])

\* C2: a call that returns for a connection whose payload is not well-formed
\* JSON, sent as a raw line or as an HTTP body, returns an error, never
\* Ok(PairingData).
C2_MalformedRejected ==
    \A k \in Tasks :
        (ReturnedWith(k) /\ ~WellFormedJson(BodyOf(conn.script)))
            => ~task[k].res.ok

C2_Witness ==
    \E k \in Tasks :
        /\ ReturnedWith(k)
        /\ conn.script.tr = "http"
        /\ conn.script.form = "truncated"
        /\ conn.fault = "none"
        /\ AllSent
        /\ task[k].res = Err("Invalid JSON")

\* C3 as claimed: a stop() made while a call is in progress makes that call
\* return Err("Server stopped") within one poll interval.
C3_StopReturnsStopped ==
    \A k \in Tasks :
        task[k].stopAt >= 0 =>
            /\ task[k].elapsed - task[k].stopAt <= SleepMillis
            /\ task[k].pc = "returned" => task[k].res = Err("Server stopped")

\* C3 amended: a stop() made while a call is in progress, when that call
\* accepts no connection (before or after the stop), makes it return within
\* one poll interval, with Err("Server stopped"), or with Err("Timeout
\* waiting for pairing") when its timeout has elapsed at that iteration.
C3_StopEndsPolling ==
    \A k \in Tasks :
        (task[k].stopAt >= 0 /\ ~task[k].got) =>
            /\ task[k].elapsed - task[k].stopAt <= SleepMillis
            /\ task[k].pc \in LoopPcs \cup {"returned"}
            /\ task[k].pc \in LoopPcs => ENABLED WaitStep(k)
            /\ task[k].pc = "returned" =>
                \/ task[k].res = Err("Server stopped")
                \/ /\ task[k].res = Err("Timeout waiting for pairing")
                   /\ task[k].elapsed > Budget(k)

C3_Witness ==
    \E k \in Tasks :
        /\ task[k].pc = "returned"
        /\ task[k].stopAt >= 0
        /\ task[k].elapsed = task[k].stopAt + SleepMillis
        /\ task[k].res = Err("Server stopped")

\* C4: a call during which no client connects and no stop() is made returns
\* Err("Timeout waiting for pairing"), not before timeout_secs have elapsed
\* and not later than one poll interval after that; until then it keeps
\* polling.
C4_TimeoutWindow ==
    \A k \in Tasks :
        /\ task[k].pc \in {"accept", "sleep"} => task[k].elapsed <= Budget(k)
        /\ task[k].pc = "top" =>
                task[k].elapsed <= Budget(k) + SleepMillis /\ ENABLED LoopTop(k)
        /\ (task[k].pc = "returned" /\ ~task[k].got /\ task[k].stopAt < 0 /\ ~task[k].late)
                => /\ task[k].res = Err("Timeout waiting for pairing")
                   /\ task[k].elapsed >= Budget(k)
                   /\ task[k].elapsed <= Budget(k) + SleepMillis

C4_Witness ==
    \E k \in Tasks :
        /\ task[k].pc = "returned"
        /\ task[k].secs = 1
        /\ ~task[k].got
        /\ task[k].stopAt < 0
        /\ ~task[k].late
        /\ task[k].res = Err("Timeout waiting for pairing")

\* C5: every call returns within timeout_secs plus one poll interval, whatever
\* the clients do.
C5_BoundedReturn ==
    \A k \in Tasks :
        task[k].pc # "idle" => task[k].elapsed <= Budget(k) + SleepMillis

\* C6 as claimed: a stop_temp_server call made while a background accept loop
\* is running does not wait for that loop: no state has the call waiting for
\* the lock that a running loop holds.
C6_StopDoesNotWaitForLoop ==
    \A c \in Callers, k \in Tasks :
        ~(/\ cmd[c].op = "stop"
          /\ cmd[c].pc = "t_take"
          /\ bg[k].pc = "b_loop"
          /\ k \in rw.readers)

\* C7: stop() is idempotent: in every reachable state, a second stop() gives
\* the listener state that the first one gave, for TempServer and for
\* SimpleServer.
C7_StopIdempotent ==
    /\ \A i \in Instances : StopServer(StopServer(srv[i])) = StopServer(srv[i])
    /\ \A s \in SimpleServers : SimpleStop(SimpleStop(s)) = SimpleStop(s)

C7_Witness ==
    \E i \in Instances : srv[i].stops >= 2 /\ ~srv[i].running

\* C8: once stop() was called on an instance its running flag stays false, and
\* a call begun after the stop returns an error (stopped or timed out) without
\* accepting a connection.
C8_StoppedForGood ==
    /\ \A i \in Instances : srv[i].stops > 0 => ~srv[i].running
    /\ \A k \in Tasks :
        task[k].late =>
            /\ ~task[k].got
            /\ task[k].pc \in {"top", "returned"}
            /\ task[k].pc = "returned" =>
                    task[k].res \in {Err("Server stopped"),
                                     Err("Timeout waiting for pairing")}

C8_Witness ==
    \E k \in Tasks :
        /\ task[k].late
        /\ task[k].pc = "returned"
        /\ task[k].res = Err("Server stopped")
        /\ conn.st = "pending"

\* C9: when a call has returned after accepting a connection, whatever the
\* outcome, waiting_for_pairing is false.
C9_WaitingCleared ==
    \A k \in Tasks :
        (task[k].pc = "returned" /\ task[k].got) => ~srv[task[k].inst].waiting

\* C10 as claimed: a status query that finds a listener held reports
\* waitingForPairing = true exactly when an accept loop is in progress on it.
C10_StatusReportsWaiting ==
    \A c \in Callers :
        (cmd[c].op = "status" /\ cmd[c].pc = "done" /\ cmd[c].seen.held) =>
            cmd[c].status.waiting = cmd[c].seen.loop

\* C10 amended: a status query reports the held listener's running flag and
\* port as they are when it reads them, and waitingForPairing = false always,
\* also while an accept loop is in progress; it reports nothing when no
\* listener is held.
C10_StatusReportsRunningAndPort ==
    \A c \in Callers :
        (cmd[c].op = "status" /\ cmd[c].pc = "done") =>
            /\ cmd[c].status.some = cmd[c].seen.held
            /\ cmd[c].status.running = cmd[c].seen.running
            /\ cmd[c].status.port = cmd[c].seen.port
            /\ ~cmd[c].status.waiting

C10_Witness ==
    \E c \in Callers :
        /\ cmd[c].op = "status"
        /\ cmd[c].pc = "done"
        /\ cmd[c].seen.held
        /\ cmd[c].seen.loop
        /\ cmd[c].seen.waiting
        /\ cmd[c].status.running
        /\ cmd[c].status.port = 10035

\* C11 as claimed: once stop() has returned on an instance, its socket is
\* released.
C11_StopReleasesSocket ==
    \A i \in Instances : srv[i].stops > 0 => ~srv[i].listener

\* C11 amended: stop() only clears the running flag; the instance keeps its
\* socket bound after stop() has returned, for as long as it exists, and the
\* socket is released when the instance is dropped.
C11_SocketHeldUntilDrop ==
    \A i \in Instances :
        /\ srv[i].stops > 0 => (srv[i].listener /\ ~srv[i].running)
        /\ srv[i].listener = srv[i].alive

C11_Witness ==
    \E i \in Instances :
        /\ srv[i].stops > 0
        /\ srv[i].listener
        /\ conn.st = "pending"
        /\ conn.inst = i

\* The success responses written on the connection so far.
SuccessesSent ==
    Cardinality({n \in 1..Len(conn.out) : conn.out[n] \in {RawSuccess, Http200}})

\* C12: a call accepts at most one connection (once it has accepted one it
\* never polls again) and has exactly one outcome, present when it has
\* returned and not before; a call that returns Ok(PairingData) accepted a
\* connection and wrote one success response on it.
C12_OneConnectionOneOutcome ==
    \A k \in Tasks :
        /\ task[k].got => task[k].pc \notin LoopPcs
        /\ task[k].pc \in LoopPcs => task[k].res = NoResult
        /\ task[k].pc = "returned" => task[k].res # NoResult
        /\ (task[k].pc = "returned" /\ task[k].res.ok) =>
                /\ task[k].got
                /\ conn.task = k
                /\ conn.st = "closed"
                /\ SuccessesSent = 1

C12_Witness ==
    \E k \in Tasks :
        /\ task[k].pc = "returned"
        /\ task[k].got
        /\ task[k].res.ok
        /\ conn.script.tr = "raw"
        /\ conn.out = <<RawSuccess>>
        /\ task[k].elapsed > 0

\* C13: while no stop() was made on it and it is not dropped, an instance on
\* which a call failed with InvalidPayload or Timeout is running with its
\* socket bound; and a call that follows such a failure and returns for a
\* connection on which a valid payload was sent whole, with no I/O failure,
\* returns that connection's PairingData.
C13_UsableAfterFailure ==
    \A k \in Tasks :
        /\ (/\ task[k].pc = "returned"
            /\ FailureKind(task[k].res) # "none"
            /\ srv[task[k].inst].alive
            /\ srv[task[k].inst].stops = 0)
                => (srv[task[k].inst].running /\ srv[task[k].inst].listener)
        /\ (/\ k = 1
            /\ hist # "none"
            /\ ReturnedWith(k)
            /\ ValidExchange(conn.script)
            /\ AllSent
            /\ conn.fault = "none")
                => task[k].res = Ok([url |-> conn.script.u, token |-> conn.script.t])

C13_Witness ==
    /\ hist = "invalid"
    /\ ReturnedWith(1)
    /\ srv[1].stops = 0
    /\ task[1].res = Ok([url |-> conn.script.u, token |-> conn.script.t])

\* C14: whenever the success response was written on a connection, it was
\* written once, and the call that accepted the connection holds
\* Ok(PairingData) with the url and token sent, as the result it is about to
\* return or has returned; no other call holds a result for that connection.
C14_SuccessSentIsReturned ==
    SuccessesSent > 0 =>
        /\ SuccessesSent = 1
        /\ conn.task \in Tasks
        /\ task[conn.task].pc \in {"finish", "returned"}
        /\ task[conn.task].res = Ok([url |-> conn.script.u, token |-> conn.script.t])
        /\ \A k \in Tasks \ {conn.task} : ~(task[k].pc = "returned" /\ task[k].res.ok)

C14_Witness ==
    /\ SuccessesSent = 1
    /\ conn.task = 1
    /\ task[1].pc = "returned"
    /\ task[1].stopAt >= 0
    /\ srv[1].stops > 0
    /\ task[1].res.ok

\* The JSON members of a line a thread has read, and whether serde accepts it.
Raw(line) == Members(line.form, line.tok)
Accepted(line) ==
    /\ line.form \notin {"none", "garbage"}
    /\ Raw(line).success \in {"true", "false"}
Has(v) == v \notin {"absent", "null"}
ReadErrs == {LErr("Failed to clone stream"), LErr("Failed to read response")}
TokenCalls == {t \in Threads : th[t].op = "request_token"}
LoginCalls == {t \in Threads : th[t].op = "login"}
AfterPending(t) ==
    /\ t \in TokenCalls
    /\ Accepted(th[t].first)
    /\ Raw(th[t].first).pending = "true"

\* C15: once the first response of request_token has pending = true the call
\* goes on to a second read: it does not return on the first response unless
\* that second read itself fails; and when the second response is not rejected
\* and carries a token, the call returns exactly the second response's token.
C15_PendingThenToken ==
    \A t \in Threads : AfterPending(t) =>
        /\ th[t].pc \in {"read2", "returned"}
        /\ (th[t].pc = "returned" /\ th[t].second = NoLine) =>
               (th[t].reads = 1 /\ th[t].res \in ReadErrs)
        /\ (th[t].pc = "returned" /\ Accepted(th[t].second)
                /\ Raw(th[t].second).rejected # "true"
                /\ Has(Raw(th[t].second).token)) =>
               (th[t].reads = 2 /\ th[t].res = LOk(Raw(th[t].second).token))

\* A pending line that itself carried a token was followed by the grant: the
\* call returned the grant's token.
C15_Witness ==
    \E t \in Threads :
        /\ AfterPending(t)
        /\ th[t].first.form = "pending_token"
        /\ th[t].second.form = "granted"
        /\ th[t].second.rid = th[t].rid
        /\ th[t].pc = "returned"
        /\ th[t].res = LOk("T1")

\* C16: when the first response of request_token is pending and the second has
\* rejected = true, the call fails with "Authorization rejected by user",
\* whether or not the second response carries a token.
C16_RejectedWins ==
    \A t \in Threads :
        (/\ AfterPending(t)
         /\ th[t].pc = "returned"
         /\ Accepted(th[t].second)
         /\ Raw(th[t].second).rejected = "true") =>
            th[t].res = LErr("Authorization rejected by user")

\* The rejection that was read carried a token, and the call failed.
C16_Witness ==
    \E t \in Threads :
        /\ AfterPending(t)
        /\ th[t].pc = "returned"
        /\ th[t].second.form = "rejected_token"
        /\ Has(Raw(th[t].second).token)
        /\ th[t].res = LErr("Authorization rejected by user")

\* The response that decides a request_token call: the second one after a
\* pending first, else the first.
Deciding(t) == IF AfterPending(t) THEN th[t].second ELSE th[t].first
NoTokenCase(t) ==
    /\ t \in TokenCalls
    /\ th[t].pc = "returned"
    /\ Accepted(Deciding(t))
    /\ Raw(Deciding(t)).pending # "true"
    /\ Raw(Deciding(t)).rejected # "true"
    /\ ~Has(Raw(Deciding(t)).token)

\* C17: every deciding response of request_token that is not pending, not
\* rejected and carries no token, be it the first response or the second after
\* a pending one, makes the call fail, with the response's message as the
\* error's message whenever the response has one.
C17_NoTokenCarriesMessage ==
    \A t \in Threads : NoTokenCase(t) =>
        /\ ~th[t].res.ok
        /\ Has(Raw(Deciding(t)).message) => th[t].res.err = Raw(Deciding(t)).message

\* What the code does in the same case: the first response's message is
\* passed on, the second response's message is not.
C17_MessageOfFirstOnly ==
    \A t \in Threads : NoTokenCase(t) =>
        th[t].res =
            IF AfterPending(t) THEN LErr("No token in authorization response")
            ELSE IF Has(Raw(Deciding(t)).message) THEN LErr(Raw(Deciding(t)).message)
            ELSE LErr("Failed to get token")

\* A refusal with a message arrived after a pending line.
C17_Witness ==
    \E t \in Threads :
        /\ NoTokenCase(t)
        /\ AfterPending(t)
        /\ th[t].second.form = "refused"
        /\ th[t].res = LErr("No token in authorization response")

\* The request lines of a call that are on the wire.
Sent(t) ==
    {n \in 1..Len(cl[th[t].c].wire) : cl[th[t].c].wire[n].rid = th[t].rid}

\* C18: login writes one request, which has the action login and carries the
\* caller's token, and reads one response; it returns Ok exactly when that
\* response has success = true, and otherwise fails with the response's
\* message, or with "Login failed" when the response has none.
C18_LoginOneExchange ==
    \A t \in LoginCalls :
        /\ th[t].writes <= 1 /\ th[t].reads <= 1
        /\ Cardinality(Sent(t)) = th[t].writes
        /\ \A n \in Sent(t) :
              cl[th[t].c].wire[n] = Request("login", th[t].rid, th[t].arg)
        /\ th[t].arg \in LoginTokens
        /\ th[t].reads = 1 => th[t].writes = 1
        /\ (th[t].pc = "returned" /\ th[t].res.ok) => th[t].reads = 1
        /\ (th[t].pc = "returned" /\ Accepted(th[t].first)) =>
              /\ th[t].res.ok <=> Raw(th[t].first).success = "true"
              /\ ~th[t].res.ok =>
                    th[t].res.err = IF Has(Raw(th[t].first).message)
                                    THEN Raw(th[t].first).message
                                    ELSE "Login failed"

\* A login was refused with a message and failed with it; another was refused
\* without one.
C18_Witness ==
    \E t \in LoginCalls :
        /\ th[t].pc = "returned"
        /\ th[t].writes = 1 /\ th[t].reads = 1
        /\ th[t].first.form = "refused"
        /\ th[t].res = LErr("refused")

\* A thread whose request is written and whose last response is not yet read.
MidExchange(t) == th[t].pc \in {"read1", "read2"}

\* C19: the exchanges of two threads on one instance do not interleave: while
\* one thread is between its request write and its last response read no other
\* thread is; and no thread reads the response to the other thread's request.
C19_ExchangesSerialized ==
    \A t \in Threads : \A u \in Threads \ {t} :
        th[t].c = th[u].c =>
            /\ ~(MidExchange(t) /\ MidExchange(u))
            /\ th[t].first # NoLine => th[t].first.rid # th[u].rid
            /\ th[t].second # NoLine => th[t].second.rid # th[u].rid

\* Two concurrent request_token calls, each answered with a grant: one caller
\* returned the token granted to the other.
C19_Crossed ==
    \E t \in Threads : \E u \in Threads \ {t} :
        /\ th[t].op = "request_token" /\ th[u].op = "request_token"
        /\ th[t].pc = "returned"
        /\ th[t].first.form = "granted"
        /\ th[t].first.rid = th[u].rid
        /\ th[t].res = LOk(th[t].first.tok)
        /\ MidExchange(u)

\* The last insert or remove recorded under a connection_id: the instance
\* inserted, 0 for a remove and when there was none.
LastOp(id) == IF reg[id].log = <<>> THEN 0 ELSE reg[id].log[Len(reg[id].log)]

\* C20: the registry's entry for a connection_id is the instance of the last
\* insert made under it, and there is no entry after a remove (so after insert
\* A, insert B, remove there is none, with A the entry between the inserts and
\* B after the second); an instance in the registry is open, and an instance a
\* caller holds a reference to stays open whatever is inserted or removed
\* afterwards.
C20_LastWriteWins ==
    /\ \A id \in ConnIds :
          /\ reg[id].c = LastOp(id)
          /\ reg[id].c # 0 => cl[reg[id].c].open
    /\ \A t \in Threads :
          th[t].held # 0 => (cl[th[t].held].open /\ cl[th[t].held].refs >= 1)

\* Instance 1, then instance 2 were inserted under one id and the entry was
\* removed: the registry has none, instance 2 is closed, and the reference to
\* instance 1 that a caller took between the inserts still has it open.
C20_Witness ==
    \E id \in ConnIds, t \in Threads :
        /\ reg[id].log = <<1, 2, 0>>
        /\ reg[id].c = 0
        /\ th[t].held = 1
        /\ cl[1].open
        /\ ~cl[2].open

\* The owners of an instance: the registry's entries, the callers' references
\* and the connect_to_android calls that have it as their local.
Owners(c) ==
    Cardinality({id \in ConnIds : reg[id].c = c})
    + Cardinality({t \in Threads : th[t].held = c})
    + Cardinality({t \in Threads : th[t].cmd \in {"connect", "insert"} /\ th[t].c = c})

\* C21 as stated: an insert that replaces the entry of a connection_id leaves
\* the connection of the instance stored before open.
C21_ReplaceKeepsOldOpen ==
    [][\A id \in ConnIds :
          (reg[id].c # 0 /\ reg'[id].c # 0 /\ reg'[id].c # reg[id].c) =>
              cl'[reg[id].c].open]_vars

\* C21 as amended: an instance that was made is open exactly while it has an
\* owner, and its count of owners is the count of those who hold it; so an
\* insert over an entry and a remove take away the registry's reference only,
\* and either one closes the connection exactly when that was the last one.
C21_ClosedWithLastReference ==
    \A c \in Clients :
        /\ cl[c].refs = Owners(c)
        /\ cl[c].open <=> Owners(c) > 0
        /\ cl[c].open => cl[c].id # ""

\* Instance 2 was inserted over instance 1, which only the registry owned:
\* instance 1 is closed, instance 2 is open.
C21_Witness ==
    \E id \in ConnIds :
        /\ reg[id].log = <<1, 2>>
        /\ reg[id].c = 2
        /\ cl[2].open
        /\ ~cl[1].open
        /\ Owners(1) = 0

\* An instance replaced in the registry while a caller holds a reference to it.
C21_HeldSurvives ==
    \E id \in ConnIds, t \in Threads :
        /\ reg[id].log = <<1, 2>>
        /\ th[t].held = 1
        /\ cl[1].open
        /\ cl[1].refs = 1

\* A thread whose connect_to_android has made its instance and not returned.
Connecting(t) == th[t].cmd \in {"connect", "insert"}
HandshakeDone(t) == Connecting(t) /\ th[t].pc = "returned"

\* C22: connect_to_android puts its instance into the registry only when its
\* handshake (login with the token given, else request_token) has returned Ok;
\* a call whose connect or handshake fails returns that error and leaves the
\* registry as it was, the entry under its own connection_id included.
C22_EntryOnlyAfterHandshake ==
    [][/\ \A t \in Threads :
             /\ (Connecting(t) /\ ~Connecting(t)') =>
                    IF th[t].res.ok
                    THEN /\ HandshakeDone(t)
                         /\ th'[t].out.ok
                         /\ reg' = [reg EXCEPT ![th[t].id] =
                                        [c |-> th[t].c, log |-> Append(@.log, th[t].c)]]
                    ELSE /\ HandshakeDone(t)
                         /\ th'[t].out = th[t].res
                         /\ reg' = reg
             /\ Connecting(t)' =>
                    (\A id \in ConnIds : reg'[id].c # th'[t].c)
             /\ (~Connecting(t) /\ th'[t] # th[t] /\ th'[t].cmd = "done"
                     /\ ~th'[t].out.ok) => reg' = reg
       /\ \A id \in ConnIds :
             (reg'[id].c # reg[id].c /\ reg'[id].c # 0) =>
                 \E t \in Threads :
                     /\ HandshakeDone(t) /\ th[t].res.ok
                     /\ th[t].id = id /\ th[t].c = reg'[id].c
                     /\ th[t].reads >= 1]_vars

\* Instance 2 was made for a connection_id under which instance 1 is stored;
\* its handshake was refused, the command returned that error, instance 2 is
\* closed and the entry is still instance 1.
C22_Witness ==
    \E id \in ConnIds, t \in Threads :
        /\ reg[id] = [c |-> 1, log |-> <<1>>]
        /\ cl[1].open
        /\ cl[2].id = id
        /\ ~cl[2].open
        /\ th[t].cmd = "done"
        /\ th[t].out = LErr("refused")

\* A connect_to_android call that is in its handshake's network I/O.
InHandshake(t) == th[t].cmd = "connect" /\ th[t].pc \in {"send", "read1", "read2"}
\* A command that is at its map operation, the lock taken.
AtMapOp(t) == th[t].cmd \in {"insert", "remove"}

\* C23: the registry's lock is held only by a command that is at its insert or
\* remove, never by one in its handshake; so while no command is at its map
\* operation the lock is free, and a connect_to_android whose handshake has
\* succeeded or a disconnect_android can take it at once, whatever other
\* calls are blocked in their handshakes.
C23_NoLockDuringIO ==
    /\ lk \in Threads \cup {0}
    /\ \A t \in Threads :
          /\ InHandshake(t) => lk # t
          /\ lk = t <=> AtMapOp(t)
          /\ (HandshakeDone(t) /\ th[t].cmd = "connect" /\ th[t].res.ok
                  /\ \A u \in Threads : ~AtMapOp(u)) => ENABLED ConnectLock(t)
          /\ (CanCommand(t) /\ \A u \in Threads : ~AtMapOp(u)) =>
                 \A id \in ConnIds : ENABLED DisconnectLock(t, id)

\* While one connect_to_android has been waiting in its handshake for the
\* user's decision, a later call connected, inserted its instance, and its
\* entry was removed again.
C23_Witness ==
    \E u \in Threads, id \in ConnIds :
        /\ InHandshake(u)
        /\ th[u].pc = "read2"
        /\ th[u].c = 1
        /\ reg[id].log = <<2, 0>>

\* A find_available_port call that is over.
FindDone == net.probe.op = "find" /\ net.probe.pc = "done"
\* What C24 says of a finished scan: the ports were tried upwards from start,
\* each one tried was found held except the one returned, and None comes only
\* after all of start .. start + 100 were tried.
ScanResultRight ==
    /\ net.probe.res \in {"Some", "None"}
    /\ net.probe.res = "Some" =>
          /\ net.probe.val >= net.probe.start
          /\ net.probe.val <= net.probe.start + ScanSpan
          /\ net.probe.free = {net.probe.val}
          /\ net.probe.tried = net.probe.val - net.probe.start + 1
    /\ net.probe.res = "None" =>
          /\ net.probe.free = {}
          /\ net.probe.tried = ScanSpan + 1

\* C24: find_available_port(start) returns the smallest port of start ..
\* start + 100 that check_port_available found available when the scan came
\* to it, and None exactly when every port of that range was found held.
C24_SmallestAvailable == FindDone => ScanResultRight

\* The same for the start ports whose range fits u16, where it holds.
C24_WhenRangeFits ==
    (FindDone /\ net.probe.start + ScanSpan < PortModulus) => ScanResultRight

\* The scan passed a held start port and returned the next one; and a scan
\* over a range that was held throughout returned None.
C24_Skipped ==
    /\ FindDone
    /\ net.probe.start = 10035
    /\ net.probe.res = "Some"
    /\ net.probe.val = 10036
C24_Exhausted ==
    /\ FindDone
    /\ net.probe.start = 65435
    /\ net.probe.res = "None"
    /\ net.probe.tried = 101

\* C25: check_port_available(port) called on its own binds with success
\* exactly when no other socket holds the port, returns false when the bind
\* failed and true when it succeeded, has released its test listener when it
\* returns, and no step of it changes which ports other sockets hold.
C25_CheckLeavesPortsAlone ==
    [][/\ net'.probe # net.probe =>
              (net'.held = net.held /\ net'.rest = net.rest)
       /\ (net.probe.op = "check" /\ net.probe.pc = "check"
               /\ net'.probe.pc = "bound") =>
              (net'.probe.bind <=> ~Held(net.probe.port))
       /\ (net.probe.op = "check" /\ net.probe.pc = "bound"
               /\ net'.probe.pc = "done") =>
              /\ net'.probe.res = IF net.probe.bind THEN "true" ELSE "false"
              /\ ~net'.probe.bind
       /\ net'.probe.pc \in {"idle", "check", "done"} => ~net'.probe.bind]_vars

\* A check of a port returned false while another socket held it; the port
\* was released, and the next check of it returned true; no other socket
\* holds it now.
C25_Witness ==
    /\ net.probe.op = "check"
    /\ net.probe.pc = "done"
    /\ net.probe.res = "true"
    /\ net.probe.prev = [port |-> net.probe.port, res |-> "false"]
    /\ ~Held(net.probe.port)
    /\ ~net.probe.bind

\* The thread that handled conn, past its handler.
Handled(k) ==
    /\ conn.task = k
    /\ task[k].got
    /\ task[k].pc \in {"finish", "returned"}
\* What the handler read as the first line of conn.
FirstLine(k) ==
    LET st == StreamOf(conn.script)
        nl == {j \in 1..conn.sent : st[j] = "NL"}
    IN  IF nl = {} THEN SubSeq(st, 1, conn.sent)
        ELSE SubSeq(st, 1, CHOOSE j \in nl : \A h \in nl : j <= h)
\* The request of conn is taken as an HTTP POST.
HttpMode(sc) ==
    /\ sc.tr = "http"
    /\ sc.method = "POST"
    /\ sc.path \in {"/pair", "/"}
\* The length of the request line and the headers with their empty line.
HeadLen(sc) == Len(StreamOf(sc)) - Len(BodyOf(sc))
\* The handler has read the whole header block of conn.
HeadersRead(k) == HttpMode(conn.script) /\ task[k].rd >= HeadLen(conn.script)

\* C26: when an HTTP POST has no Content-Length header, or one with the value
\* zero under either spelling of the name, and the header block was read and
\* no read or write on the connection failed, the handler has written one 400
\* response and nothing else, has read nothing after the header block, and
\* wait_for_pairing fails with "No content in POST request".
C26_NoLengthIs400 ==
    \A k \in Tasks :
        (/\ Handled(k)
         /\ HeadersRead(k)
         /\ conn.script.len \in {"none", "zero", "lowzero"}
         /\ conn.fault = "none") =>
            /\ conn.out = <<Http400>>
            /\ task[k].res = Err("No content in POST request")
            /\ task[k].rd = HeadLen(conn.script)

\* A POST with content-length: 0 and a body behind it was answered 400, the
\* call returned the error, and the body was left unread.
C26_Witness ==
    \E k \in Tasks :
        /\ Handled(k)
        /\ task[k].pc = "returned"
        /\ conn.script.len = "lowzero"
        /\ conn.sent = Len(StreamOf(conn.script))
        /\ conn.sent > task[k].rd
        /\ conn.out = <<Http400>>
        /\ task[k].res = Err("No content in POST request")

\* The body the handler read: content_length symbols after the header block.
BodyRead(k) ==
    SubSeq(StreamOf(conn.script), HeadLen(conn.script) + 1,
           HeadLen(conn.script) + task[k].clen)
\* The whole of the body that the headers announce has been read.
BodyComplete(k) ==
    task[k].clen > 0 /\ task[k].rd = HeadLen(conn.script) + task[k].clen
\* The one response the claim wants: 200 with the success body and its length
\* when the body read parses, 400 with length 0 otherwise.
OneResponse(k) ==
    /\ Len(conn.out) = 1
    /\ IF BodyComplete(k) /\ ParsePairingData(BodyRead(k)).ok
       THEN /\ conn.out[1].kind = "200"
            /\ conn.out[1].body = SuccessBody
            /\ conn.out[1].clen = Len(conn.out[1].body)
       ELSE /\ conn.out[1].kind = "400"
            /\ conn.out[1].body = <<>>
            /\ conn.out[1].clen = 0

\* C27 as stated: every HTTP connection whose header block was read, when no
\* read or write on it failed, has got exactly one response by the time
\* wait_for_pairing returns: 200 when its body parsed, 400 in every other case.
C27_AlwaysOneResponse ==
    \A k \in Tasks :
        (/\ Handled(k) /\ task[k].pc = "returned"
         /\ HeadersRead(k)
         /\ conn.fault = "none") => OneResponse(k)

\* C27 as amended: at most one response is ever written to a connection; an
\* HTTP connection whose header block was read and whose announced body, if
\* any, arrived whole has, when no read or write on it failed, got exactly
\* one response by the time wait_for_pairing returns, 200 when the body read
\* parsed and 400 when it did not or when no length was announced; and a
\* connection that ended before the announced body had arrived has got no
\* response, wait_for_pairing failing with "Failed to read body".
C27_OneResponseUnlessBodyCut ==
    /\ Len(conn.out) <= 1
    /\ \A k \in Tasks :
          (/\ Handled(k) /\ task[k].pc = "returned"
           /\ HeadersRead(k)
           /\ conn.fault = "none") =>
              IF task[k].clen = 0 \/ BodyComplete(k)
              THEN OneResponse(k)
              ELSE /\ conn.out = <<>>
                   /\ task[k].res = Err("Failed to read body")
                   /\ conn.closed

\* A body one symbol shorter than the payload was announced and read: it did
\* not parse and the connection got the 400 response.
C27_Witness ==
    \E k \in Tasks :
        /\ Handled(k) /\ task[k].pc = "returned"
        /\ conn.script.len = "short"
        /\ BodyComplete(k)
        /\ conn.out = <<Http400>>
        /\ task[k].res = Err("Invalid JSON")

\* The connection of a raw-line exchange: the first line is not an HTTP POST.
RawMode(k) == Handled(k) /\ ~IsHttpPost(FirstLine(k))

\* C28: in raw-line mode the success line is the only thing ever written, and
\* it is written only when the first line parsed as {url, token}; when the
\* first line did not parse nothing is written, the call fails with "Failed
\* to parse pairing data", and the connection is closed when it returns.
C28_RawSuccessOnlyOnParse ==
    \A k \in Tasks : RawMode(k) =>
        /\ conn.out \in {<<>>, <<RawSuccess>>}
        /\ conn.out # <<>> => ParsePairingData(Trim(FirstLine(k))).ok
        /\ (conn.fault = "none" /\ ~ParsePairingData(Trim(FirstLine(k))).ok) =>
              /\ conn.out = <<>>
              /\ task[k].res = Err("Failed to parse pairing data")
              /\ task[k].pc = "returned" => conn.st = "closed"

\* A raw line without the token field: nothing was written, the call returned
\* the parse error and the connection is closed.
C28_Witness ==
    \E k \in Tasks :
        /\ RawMode(k)
        /\ task[k].pc = "returned"
        /\ conn.script.tr = "raw"
        /\ conn.script.form = "notoken"
        /\ conn.out = <<>>
        /\ conn.st = "closed"
        /\ task[k].res = Err("Failed to parse pairing data")

\* The text holds the line as a run of consecutive symbols.
Carries(text, line) ==
    \E i \in 1..(Len(text) - Len(line) + 1) :
        SubSeq(text, i, i + Len(line) - 1) = line

\* C29: when the first line of a raw-line exchange did not parse, the error
\* that wait_for_pairing returned holds the trimmed line that was received,
\* next to the parser's message.
C29_ErrorCarriesRawLine ==
    \A k \in Tasks :
        (/\ RawMode(k)
         /\ task[k].pc = "returned"
         /\ task[k].res = Err("Failed to parse pairing data")) =>
            Carries(ParseErrorText(Trim(FirstLine(k))), Trim(FirstLine(k)))

\* A start_temp_server call at its first state.temp_server.write(), with the
\* background task k in its loop under the read guard.
StartWaitsOn(c, k) ==
    /\ cmd[c].op = "start"
    /\ cmd[c].pc \in {"s_claim", "s_clear"}
    /\ bg[k].pc = "b_loop"
    /\ k \in rw.readers

\* C30 as claimed: a start_temp_server call made while the background accept
\* loop of an earlier listener is running gets past that loop and returns: no
\* state has the call holding the writer bit and waiting for the read guard
\* that a running loop holds.
C30_StartGetsPastLoop ==
    \A c \in Callers, k \in Tasks :
        ~(StartWaitsOn(c, k) /\ cmd[c].pc = "s_clear")

\* What the code does: a start call that has come to wait while a loop holds
\* the read guard waits in every later state, the loop still running, the
\* listener it runs on still held in the slot, alive and running.
C30_StartWaitsForever ==
    [][\A c \in Callers, k \in Tasks :
          StartWaitsOn(c, k) =>
              /\ StartWaitsOn(c, k)'
              /\ slot' = bg[k].inst
              /\ srv'[slot'].running]_vars

\* C31: no two background tasks are in their accept loops on the same
\* listener instance at the same time.
C31_OneLoopPerListener ==
    \A j \in Tasks, k \in Tasks :
        (j # k /\ bg[j].pc = "b_loop" /\ bg[k].pc = "b_loop") =>
            bg[j].inst # bg[k].inst

\* C32: once stop() has cleared the running flag of a listener, no call in
\* progress on it accepts a connection: every accept that takes a connection
\* is made with the flag still set.
C32_NoAcceptOnceStopped ==
    [][\A k \in Tasks :
          (task[k].pc = "accept" /\ ~task[k].got /\ task'[k].got) =>
              srv[task[k].inst].running]_vars

\* The same of the result: a call that was in progress when stop() was called
\* does not return pairing data.
C32_NoResultAfterStop ==
    \A k \in Tasks :
        (task[k].pc = "returned" /\ task[k].stopAt >= 0) => ~task[k].res.ok

\* C33: in request_token, when the pending response and the decision response
\* have both arrived before the first read, the first read takes the pending
\* response and leaves the decision response to be read by the second read.
C33_DecisionLeftForSecondRead ==
    [][\A t \in Threads :
          (/\ th[t].op = "request_token"
           /\ th[t].pc = "read1"
           /\ th'[t].pc = "read2"
           /\ Len(cl[th[t].c].inbox) >= 2) =>
              /\ th'[t].first = cl[th[t].c].inbox[1]
              /\ cl'[th[t].c].inbox # <<>>
              /\ Head(cl'[th[t].c].inbox) = cl[th[t].c].inbox[2]]_vars

\* The response a finished request_token call took its result from.
DecidingLine(t) == IF th[t].reads = 2 THEN th[t].second ELSE th[t].first

\* C34: request_token never returns a token out of a response that says
\* rejected = true, be it the first response or the second.
C34_NoTokenFromRejected ==
    \A t \in Threads :
        (/\ th[t].op = "request_token"
         /\ th[t].pc = "returned"
         /\ th[t].res.ok) =>
            ~UnwrapOrFalse(ParseAuthResponse(DecidingLine(t)).rejected)

\* What the code does for the second response: a rejected one gives the
\* rejection error even when it carries a token.
C34_RejectedSecondIsError ==
    \A t \in Threads :
        (/\ th[t].op = "request_token"
         /\ th[t].pc = "returned"
         /\ th[t].reads = 2
         /\ UnwrapOrFalse(ParseAuthResponse(th[t].second).rejected)) =>
            th[t].res = LErr("Authorization rejected by user")

\* The errors of a read_json that got no line.
NoLineErrs == {LErr("Failed to clone stream"), LErr("Failed to read response")}

\* C35: request_token writes its request once and reads at most two
\* responses: a call that returned after a first response that is not pending
\* has read one, a call that returned after a pending first response has read
\* two unless its second read got no line, and a second response that is
\* pending again, without token and not rejected, ends the call with an error
\* and no third read.
C35_OneWriteAtMostTwoReads ==
    \A t \in Threads : th[t].op = "request_token" =>
        LET first == ParseAuthResponse(th[t].first)
            second == ParseAuthResponse(th[t].second)
        IN  /\ th[t].writes <= 1
            /\ th[t].reads <= 2
            /\ th[t].pc \in {"read1", "read2"} => th[t].writes = 1
            /\ th[t].pc = "returned" =>
                  /\ th[t].res # LErr("Failed to send") => th[t].writes = 1
                  /\ th[t].reads = 0 =>
                        th[t].res \in NoLineErrs \cup {LErr("Failed to send")}
                  /\ (th[t].reads >= 1 /\ ~(first.ok /\ FirstIsPending(first))) =>
                        th[t].reads = 1
                  /\ (th[t].reads >= 1 /\ first.ok /\ FirstIsPending(first)) =>
                        \/ th[t].reads = 2
                        \/ th[t].res \in NoLineErrs
                  /\ (/\ th[t].reads = 2 /\ second.ok /\ FirstIsPending(second)
                      /\ second.token = "none"
                      /\ ~UnwrapOrFalse(second.rejected)) =>
                        th[t].res = LErr("No token in authorization response")

\* A call read a pending response twice and returned the error after its
\* second read, having written one request.
C35_Witness ==
    \E t \in Threads :
        /\ th[t].op = "request_token"
        /\ th[t].pc = "returned"
        /\ th[t].writes = 1
        /\ th[t].reads = 2
        /\ th[t].first.form = "pending"
        /\ th[t].second.form = "pending"
        /\ th[t].res = LErr("No token in authorization response")

\* C36: find_available_port(start) ends with Some(port) or None for every
\* start, and its end_port is start + 100, the sum having fitted u16.
C36_AlwaysAValue ==
    FindDone =>
        /\ net.probe.res \in {"Some", "None"}
        /\ net.probe.last = net.probe.start + ScanSpan

\* The step on which the bind of start call c fails.
BindFails(c) ==
    /\ cmd[c].op = "start"
    /\ cmd[c].pc = "s_new"
    /\ cmd'[c].pc = "done"

\* C37 as stated: after the failed bind of a start_temp_server call the
\* coordinator holds no listener.
C37_NoListenerAfterBindFailure ==
    [][\A c \in Callers : BindFails(c) => slot' = 0]_vars

\* C37 as amended: the clear of a start call leaves the slot empty and the
\* listener that was held dropped; while the call is between its clear and
\* its bind the slot is filled only by the install of another start call; the
\* step on which the bind fails returns "Failed to bind port" at once, makes
\* no listener, and leaves the slot, the lock and the background tasks as
\* they are; and only a call whose bind made a listener goes on to install
\* it and to spawn a background task.
C37_BindFailureInstallsNothing ==
    [][\A c \in Callers :
          /\ (cmd[c].pc = "s_clear" /\ cmd'[c].pc = "s_new") =>
                /\ slot' = 0
                /\ slot # 0 => ~srv'[slot].alive
          /\ (cmd[c].pc = "s_new" /\ slot = 0 /\ slot' # 0) =>
                \E d \in Callers \ {c} :
                    /\ cmd[d].pc = "s_install"
                    /\ cmd'[d].pc = "s_spawn"
                    /\ slot' = cmd[d].inst
          /\ BindFails(c) =>
                /\ cmd'[c].err = "Failed to bind port"
                /\ cmd'[c].inst = 0
                /\ srv' = srv
                /\ slot' = slot
                /\ rw' = rw
                /\ bg' = bg
          /\ cmd'[c].pc \in {"s_claim2", "s_install"} =>
                /\ cmd'[c].err = ""
                /\ cmd'[c].inst # 0
                /\ srv'[cmd'[c].inst].alive
                /\ srv'[cmd'[c].inst].port = cmd'[c].port]_vars

\* An earlier start call installed a listener and returned; a later one
\* cleared the slot, its bind failed for a cause outside the program, and it
\* has returned the error: the earlier listener is gone, no listener is
\* alive, the slot is empty and no background task runs or is left to run.
C37_Witness ==
    \E c \in Callers :
        /\ cmd[c].op = "start"
        /\ cmd[c].pc = "done"
        /\ cmd[c].err = "Failed to bind port"
        /\ slot = 0
        /\ \A i \in Instances : ~srv[i].alive
        /\ \A d \in Callers \ {c} :
              /\ cmd[d].op = "start"
              /\ cmd[d].pc = "done"
              /\ cmd[d].err = ""
              /\ cmd[d].inst # 0
        /\ \A k \in Tasks : bg[k].pc = "free"

\* C38: the listener thread of the SimpleServer never spends more than one
\* poll interval between two calls of accept, and none beyond one poll
\* interval after stop() before it ends, whatever the clients it has accepted
\* do; a handler waits for nothing but its own client; and the success line
\* goes only to a client whose own line was read and parsed.
C38_HandlersDoNotHoldTheLoop ==
    /\ ss.gap <= SleepMillis
    /\ ss.late <= SleepMillis
    /\ ss.loop \in {"accept", "check", "sleep"} =>
          ENABLED (SimpleAccept \/ SimpleCheck \/ SimpleSleep)
    /\ \A j \in Peers :
          /\ ss.peer[j].st = "handling" => ENABLED SimpleHandle(j)
          /\ ss.peer[j].st = "answered" =>
                ss.peer[j].sent /\ ss.peer[j].script = "valid"

\* A client that sends nothing is with its handler, another client has been
\* answered meanwhile, and the listener thread has ended one poll interval
\* after a stop().
C38_Witness ==
    \E i \in Peers, j \in Peers :
        /\ ss.peer[i].st = "handling"
        /\ ss.peer[i].script = "silent"
        /\ ss.peer[j].st = "answered"
        /\ ss.stopped
        /\ ss.loop = "done"
        /\ ss.late = SleepMillis

====
